---- MODULE Spec2Model ----
(***************************************************************************)
(* A model of the GitHub repository manager: the API client               *)
(* (github-client.js), its bulk runners, the command layer (commands.js)  *)
(* and the command-line entry (index.js).  The remote hosting service is  *)
(* the environment: every remote call is answered nondeterministically    *)
(* with one of the answers the service can give in the current remote     *)
(* state.                                                                 *)
(***************************************************************************)
EXTENDS Integers, Sequences, FiniteSets, TLC

VARIABLES
    remote,      \* the account's repositories on the hosting service
    olderCount,  \* further repositories sorted before the modelled ones
    username,    \* GitHubClient.username (the cached login)
    entry,       \* the operation that was invoked
    pc,          \* position of the single thread of control
    owner,       \* the owner argument / the local `username` of a command
    isPrivate,   \* the isPrivate argument / targetVisibility
    listing,     \* the local `repos`: what the listing call returned
    targets,     \* the runner's `repos` argument / `selectedRepos`
    idx,         \* position of the runner's for-loop (1-based)
    results,     \* the runner's `results`
    errors,      \* the runner's `errors`
    calls,       \* every remote call issued so far, in issue order
    inflight,    \* remote calls issued and not yet answered
    prompts,     \* confirmation prompts answered so far, in order
    shown,       \* what the command has displayed, in order
    query,       \* the search query
    stats,       \* getRepositoryStats: its sub-fetch answers and result
    runner,      \* the bulk runner of the client that is executing, if any
    answers,     \* the answered remote calls with their answers, in order
    repoName,    \* the repository name given on the command line
    remote0,     \* the remote state when the operation was invoked (history)
    exitCode,    \* the process exit code (Running until the process ends)
    args,        \* process.argv.slice(2): the command word, if one was given
    token,       \* process.env.GITHUB_TOKEN
    client,      \* whether the GitHubClient has been constructed
    rounds,      \* interactive mode: menu actions handled so far
    authQueries, \* users.getAuthenticated queries that succeeded (history)
    checked      \* selectMultipleRepositories called directly: the rows checked

vars == <<remote, olderCount, username, entry, pc, owner, isPrivate, listing,
          targets, idx, results, errors, calls, inflight, prompts, shown,
          query, stats, runner, answers, repoName, remote0, exitCode, args,
          token, client, rounds, authQueries, checked>>

\* the state of the process around the commands
procLocals == <<exitCode, args, token, client, rounds, authQueries, checked>>

----------------------------------------------------------------------------
(* The bounded universe *)

Owners == {"me", "org"}
Names == {"a", "b", "c"}
\* owner/name pairs the remote may hold; "a" exists under two owners
RepoKeys == {<<"me", "a">>, <<"me", "b">>, <<"me", "c">>, <<"org", "a">>}
OwnKeys == {k \in RepoKeys : k[1] = "me"}
\* the order in which the service lists them (sort: updated, direction: asc)
KeyOrder == <<(<<"me", "a">>), (<<"me", "b">>), (<<"me", "c">>), (<<"org", "a">>)>>

\* the exit code of a process that has not ended
Running == -1
NoUser == "<unset>"
\* the login of the authenticated identity
Login == "me"
MaxTargets == 3
\* per_page and page of the listing request
PerPage == 100
PageNo == 2

Absent == [exists |-> FALSE, private |-> FALSE, archived |-> FALSE]
RepoStates == {Absent} \cup
    {[exists |-> TRUE, private |-> p, archived |-> a] : p, a \in BOOLEAN}

SeqsUpTo(S, n) == UNION {[1..m -> S] : m \in 0..n}

\* getRepositoryStats: its three sub-fetches, the value each degrades to
Subs == {"contributors", "languages", "commits"}
SubDefault(sub) == IF sub = "languages" THEN {} ELSE <<>>
Null == "null"
\* no sub-fetch has been answered
NoStats == [sub \in Subs |-> [ok |-> FALSE, data |-> SubDefault(sub)]]

----------------------------------------------------------------------------
(* The hosting service (environment) *)

Exists(r, o, n) == <<o, n>> \in RepoKeys /\ r[<<o, n>>].exists

DeleteCall(o, n) == [api |-> "repos.delete", owner |-> o, repo |-> n, arg |-> ""]
UpdateCall(o, n, a) == [api |-> "repos.update", owner |-> o, repo |-> n, arg |-> a]

IsMutation(c) == c.api \in {"repos.delete", "repos.update"}

\* the answers the service can give to a mutating call: a repository that
\* does not exist answers 404; one that exists is changed, or the call is
\* refused (403: no rights, archived and read-only, ...)
RemoteAnswers(r, c) ==
    IF Exists(r, c.owner, c.repo) THEN {"ok", "Forbidden"} ELSE {"Not Found"}

\* the remote state after the service has carried out call c
RemoteApply(r, c) ==
    LET k == <<c.owner, c.repo>> IN
    CASE c.api = "repos.delete" -> [r EXCEPT ![k] = Absent]
      [] c.arg = "private:true" -> [r EXCEPT ![k].private = TRUE]
      [] c.arg = "private:false" -> [r EXCEPT ![k].private = FALSE]
      [] c.arg = "archived:true" -> [r EXCEPT ![k].archived = TRUE]
      [] c.arg = "archived:false" -> [r EXCEPT ![k].archived = FALSE]
      [] OTHER -> r

\* the Repository shape the client maps a listed repository to
RepoRecord(r, k) ==
    [name |-> k[2], full_name |-> k,
     private |-> r[k].private, archived |-> r[k].archived]

----------------------------------------------------------------------------
(* GitHubClient: the single-item mutating operations *)

\* error.message of the Error a client method throws: its prefix and the
\* message of the error it caught
Wrapped(prefix, cause) == <<prefix, cause>>

\* (mutant) the catch block returns false instead of throwing
deleteRepository_NoThrow(o, n, a) ==
    [ok |-> TRUE, value |-> [deleted |-> (a = "ok")]]

deleteRepository(o, n, a) ==
    IF a = "ok" THEN [ok |-> TRUE, value |-> [deleted |-> TRUE]]
    ELSE [ok |-> FALSE, error |-> Wrapped("Failed to delete repository", a)]

updateRepositoryVisibility(r, o, n, a) ==
    IF a = "ok"
    THEN [ok |-> TRUE,
          value |-> [name |-> n, full_name |-> <<o, n>>,
                     private |-> r[<<o, n>>].private]]
    ELSE [ok |-> FALSE,
          error |-> Wrapped("Failed to update repository visibility", a)]

archiveRepository(r, o, n, a) ==
    IF a = "ok"
    THEN [ok |-> TRUE,
          value |-> [name |-> n, full_name |-> <<o, n>>,
                     archived |-> r[<<o, n>>].archived]]
    ELSE [ok |-> FALSE, error |-> Wrapped("Failed to archive repository", a)]

unarchiveRepository(r, o, n, a) ==
    IF a = "ok"
    THEN [ok |-> TRUE,
          value |-> [name |-> n, full_name |-> <<o, n>>,
                     archived |-> r[<<o, n>>].archived]]
    ELSE [ok |-> FALSE, error |-> Wrapped("Failed to unarchive repository", a)]

----------------------------------------------------------------------------
(* GitHubClient: the four bulk runners *)

Runners == {"bulkUpdateVisibility", "bulkArchiveRepositories",
            "bulkUnarchiveRepositories", "bulkDeleteRepositories"}

\* the remote call the runner's single-item operation issues for `repo`
BulkItemCall(rn, o, repo, p) ==
    CASE rn = "bulkDeleteRepositories" -> DeleteCall(o, repo.name)
      [] rn = "bulkArchiveRepositories" -> UpdateCall(o, repo.name, "archived:true")
      [] rn = "bulkUnarchiveRepositories" -> UpdateCall(o, repo.name, "archived:false")
      [] rn = "bulkUpdateVisibility" ->
            UpdateCall(o, repo.name, IF p THEN "private:true" ELSE "private:false")

\* what the single-item operation gives back for answer a (r: remote after it)
BulkItemOutcome(rn, r, o, repo, a) ==
    CASE rn = "bulkDeleteRepositories" -> deleteRepository(o, repo.name, a)
      [] rn = "bulkArchiveRepositories" -> archiveRepository(r, o, repo.name, a)
      [] rn = "bulkUnarchiveRepositories" -> unarchiveRepository(r, o, repo.name, a)
      [] rn = "bulkUpdateVisibility" -> updateRepositoryVisibility(r, o, repo.name, a)

\* results.push(...): delete pushes {name, success}, the others {...result, success}
BulkResultEntry(rn, repo, value) ==
    CASE rn = "bulkDeleteRepositories" -> [name |-> repo.name, success |-> TRUE]
      [] rn = "bulkUpdateVisibility" ->
            [name |-> value.name, full_name |-> value.full_name,
             private |-> value.private, success |-> TRUE]
      [] OTHER ->
            [name |-> value.name, full_name |-> value.full_name,
             archived |-> value.archived, success |-> TRUE]

\* (mutant) the catch block rethrows instead of recording the failure
BulkItemDone_Rethrow(rn, res, errs, i, repo, out) ==
    IF out.ok
    THEN [results |-> Append(res, BulkResultEntry(rn, repo, out.value)),
          errors |-> errs, idx |-> i + 1, pc |-> "bulk"]
    ELSE [results |-> res, errors |-> errs, idx |-> i, pc |-> "thrown"]

\* (mutant) the catch block swallows the failure without recording it
BulkItemDone_DropError(rn, res, errs, i, repo, out) ==
    IF out.ok
    THEN [results |-> Append(res, BulkResultEntry(rn, repo, out.value)),
          errors |-> errs, idx |-> i + 1, pc |-> "bulk"]
    ELSE [results |-> res, errors |-> errs, idx |-> i + 1, pc |-> "bulk"]

\* (mutant) a failed item is attempted again
BulkItemDone_Retry(rn, res, errs, i, repo, out) ==
    IF out.ok
    THEN [results |-> Append(res, BulkResultEntry(rn, repo, out.value)),
          errors |-> errs, idx |-> i + 1, pc |-> "bulk"]
    ELSE [results |-> res,
          errors |-> IF \E e \in 1..Len(errs) : errs[e].name = repo.name
                     THEN errs
                     ELSE Append(errs, [name |-> repo.name, error |-> out.error]),
          idx |-> IF \E e \in 1..Len(errs) : errs[e].name = repo.name
                  THEN i + 1 ELSE i,
          pc |-> "bulk"]

\* (mutant) results.unshift instead of results.push
BulkItemDone_Unshift(rn, res, errs, i, repo, out) ==
    IF out.ok
    THEN [results |-> <<BulkResultEntry(rn, repo, out.value)>> \o res,
          errors |-> errs, idx |-> i + 1, pc |-> "bulk"]
    ELSE [results |-> res,
          errors |-> Append(errs, [name |-> repo.name, error |-> out.error]),
          idx |-> i + 1, pc |-> "bulk"]

\* the body of one loop iteration after the awaited call has settled:
\* try { results.push } catch (error) { errors.push({name, error: message}) }
BulkItemDone(rn, res, errs, i, repo, out) ==
    IF out.ok
    THEN [results |-> Append(res, BulkResultEntry(rn, repo, out.value)),
          errors |-> errs, idx |-> i + 1, pc |-> "bulk"]
    ELSE [results |-> res,
          errors |-> Append(errs, [name |-> repo.name, error |-> out.error]),
          idx |-> i + 1, pc |-> "bulk"]

cmdLocals == <<entry, owner, isPrivate, listing, targets, prompts, shown, query,
               stats, procLocals, username, olderCount, runner, repoName, remote0>>

\* (mutant) the loop does not await the call before the next iteration
BulkIssue_NoAwait ==
    /\ pc = "bulk"
    /\ idx <= Len(targets)
    /\ LET c == BulkItemCall(runner, owner, targets[idx], isPrivate) IN
        /\ calls' = Append(calls, c)
        /\ inflight' = inflight \cup {c}
    /\ idx' = idx + 1
    /\ pc' = "bulk"
    /\ UNCHANGED <<remote, results, errors, answers, cmdLocals>>

\* for (const repo of repos) { ... await this.<op>(owner, repo.name ...)
BulkIssue ==
    /\ pc = "bulk"
    /\ idx <= Len(targets)
    /\ LET c == BulkItemCall(runner, owner, targets[idx], isPrivate) IN
        /\ calls' = Append(calls, c)
        /\ inflight' = inflight \cup {c}
    /\ pc' = "bulk_await"
    /\ UNCHANGED <<remote, idx, results, errors, answers, cmdLocals>>

\* the awaited call settles: the service answers, the iteration finishes
BulkSettle ==
    /\ pc = "bulk_await"
    /\ LET c == BulkItemCall(runner, owner, targets[idx], isPrivate) IN
        \E a \in RemoteAnswers(remote, c) :
            LET r2 == IF a = "ok" THEN RemoteApply(remote, c) ELSE remote
                out == BulkItemOutcome(runner, r2, owner, targets[idx], a)
                nxt == BulkItemDone(runner, results, errors, idx, targets[idx], out)
            IN  /\ remote' = r2
                /\ answers' = Append(answers, [call |-> c, answer |-> a])
                /\ inflight' = inflight \ {c}
                /\ results' = nxt.results
                /\ errors' = nxt.errors
                /\ idx' = nxt.idx
                /\ pc' = nxt.pc
    /\ UNCHANGED <<calls, cmdLocals>>

\* return { results, errors }
BulkReturn ==
    /\ pc = "bulk"
    /\ idx > Len(targets)
    /\ pc' = IF entry = runner THEN "returned" ELSE "report"
    /\ UNCHANGED <<remote, idx, results, errors, calls, inflight, answers, cmdLocals>>

----------------------------------------------------------------------------
(* A direct call of one of the client's bulk runners *)


InitBulk ==
    /\ \E ex \in SUBSET RepoKeys : \E p, a \in BOOLEAN :
          remote = [k \in RepoKeys |->
                      IF k \in ex THEN [exists |-> TRUE, private |-> p,
                                        archived |-> a]
                      ELSE Absent]
    /\ remote0 = remote
    /\ repoName = ""
    /\ olderCount = 0
    /\ username = NoUser
    /\ runner \in Runners
    /\ entry = runner
    /\ pc = "bulk"
    /\ owner \in Owners
    /\ isPrivate \in (IF runner = "bulkUpdateVisibility" THEN BOOLEAN ELSE {FALSE})
    /\ listing = <<>>
    /\ targets \in SeqsUpTo({RepoRecord(remote, k) : k \in OwnKeys}, MaxTargets)
    /\ idx = 1
    /\ results = <<>>
    /\ errors = <<>>
    /\ calls = <<>>
    /\ inflight = {}
    /\ answers = <<>>
    /\ prompts = <<>>
    /\ shown = <<>>
    /\ query = <<>>
    /\ stats = NoStats
    /\ exitCode = Running
    /\ args = <<>>
    /\ token = "ghp_token"
    /\ client = "GitHubClient"
    /\ rounds = 0
    /\ authQueries = 0
    /\ checked = {}

NextBulk == BulkIssue \/ BulkSettle \/ BulkReturn

SpecBulk == InitBulk /\ [][NextBulk]_vars

----------------------------------------------------------------------------
(* GitHubClient: the reading operations *)

ListCall == [api |-> "repos.listForAuthenticatedUser", owner |-> "", repo |-> "",
             arg |-> "per_page:100,page:2,sort:updated,direction:asc"]
AuthCall == [api |-> "users.getAuthenticated", owner |-> "", repo |-> "", arg |-> ""]
GetCall(o, n) == [api |-> "repos.get", owner |-> o, repo |-> n, arg |-> ""]

\* the answers the service can give to the reading calls
ListAnswers == {"ok", "Service Unavailable"}
AuthAnswers == {"ok", "Bad credentials"}
GetAnswers(r, o, n) == IF Exists(r, o, n) THEN {"ok"} ELSE {"Not Found"}

\* (mutant) the cached username is not consulted: every call queries
getUsername_NoCache(u, a) ==
    IF a = "ok"
    THEN [ok |-> TRUE, value |-> Login, username |-> Login, queried |-> TRUE,
          error |-> Wrapped("", "")]
    ELSE [ok |-> FALSE, value |-> "", username |-> u, queried |-> TRUE,
          error |-> Wrapped("Failed to get username", a)]

\* getUsername: if (this.username) return it; else query the authenticated
\* identity (answer a), cache data.login and return it, or throw.
\* `username` is this.username afterwards, `queried` whether it asked.
getUsername(u, a) ==
    IF u # NoUser
    THEN [ok |-> TRUE, value |-> u, username |-> u, queried |-> FALSE,
          error |-> Wrapped("", "")]
    ELSE IF a = "ok"
    THEN [ok |-> TRUE, value |-> Login, username |-> Login, queried |-> TRUE,
          error |-> Wrapped("", "")]
    ELSE [ok |-> FALSE, value |-> "", username |-> u, queried |-> TRUE,
          error |-> Wrapped("Failed to get username", a)]

\* the service's pagination: page `page` of size `perPage` of the account's
\* repositories in listing order; `older` unmodelled repositories come first
\* (older <= (page - 1) * perPage, so none of them falls into the page)
listForAuthenticatedUser(r, older, perPage, page) ==
    LET all == SelectSeq(KeyOrder, LAMBDA k : r[k].exists)
        lo == (page - 1) * perPage + 1 - older
        hi == page * perPage - older
        from == IF lo < 1 THEN 1 ELSE lo
        to == IF hi > Len(all) THEN Len(all) ELSE hi
    IN  IF from > to THEN <<>> ELSE SubSeq(all, from, to)

listRepositories(r, older) ==
    LET page == listForAuthenticatedUser(r, older, PerPage, PageNo)
    IN  [j \in 1..Len(page) |-> RepoRecord(r, page[j])]

\* (mutant) the listing is returned unfiltered
listPublicRepositories_All(r, older) == listRepositories(r, older)

\* (mutant) the active listing is the full listing
listActiveRepositories_All(r, older) == listRepositories(r, older)

\* (mutant) the private listing leaves out the archived repositories
listPrivateRepositories_ActiveOnly(r, older) ==
    SelectSeq(listRepositories(r, older),
              LAMBDA repo : repo.private /\ ~repo.archived)

listArchivedRepositories(r, older) ==
    SelectSeq(listRepositories(r, older), LAMBDA repo : repo.archived)
listActiveRepositories(r, older) ==
    SelectSeq(listRepositories(r, older), LAMBDA repo : ~repo.archived)
listPublicRepositories(r, older) ==
    SelectSeq(listRepositories(r, older), LAMBDA repo : ~repo.private)
listPrivateRepositories(r, older) ==
    SelectSeq(listRepositories(r, older), LAMBDA repo : repo.private)

\* the listing operations of the client and what each returns
ListOps == {"listRepositories", "listArchivedRepositories",
            "listActiveRepositories", "listPublicRepositories",
            "listPrivateRepositories"}
ListResult(op, r, older) ==
    CASE op = "listArchivedRepositories" -> listArchivedRepositories(r, older)
      [] op = "listActiveRepositories" -> listActiveRepositories(r, older)
      [] op = "listPublicRepositories" -> listPublicRepositories(r, older)
      [] op = "listPrivateRepositories" -> listPrivateRepositories(r, older)
      [] OTHER -> listRepositories(r, older)

----------------------------------------------------------------------------
(* utils.js: the prompts *)

\* the rows of the checkbox prompt offered for `repos`, numbered in the
\* order of `choices` (the separator left out): Select All, Select None,
\* then one row per offered repository
SelectAllRow == 1
SelectNoneRow == 2
RepoRow(j) == SelectNoneRow + j
Rows(repos) == 1..RepoRow(Len(repos))

\* the value of a row: 'select-all', 'select-none', or value: repo.name
RowValue(repos, row) ==
    IF row = SelectAllRow THEN "select-all"
    ELSE IF row = SelectNoneRow THEN "select-none"
    ELSE repos[row - SelectNoneRow].name

\* the values of the checkbox choices offered for `repos`
Choices(repos) == {RowValue(repos, row) : row \in Rows(repos)}

\* the answer of the prompt, `selectedRepos`: the values of the checked rows
SelectedValues(repos, rows) == {RowValue(repos, row) : row \in rows}

\* what selectMultipleRepositories returns when the prompt answered `values`
selectMultipleRepositories(repos, values) ==
    IF "select-all" \in values THEN repos
    ELSE IF "select-none" \in values THEN <<>>
    ELSE SelectSeq(repos, LAMBDA repo : repo.name \in values)

----------------------------------------------------------------------------
(* A direct call of selectMultipleRepositories *)

MaxOffered == 3

\* the user answers the checkbox prompt (validate refuses an empty answer)
\* and the function returns; with nothing to offer it throws before asking
SelectPrompt ==
    /\ pc = "selectMultipleRepositories"
    /\ IF Len(listing) = 0
       THEN /\ pc' = "thrown"
            /\ UNCHANGED <<targets, checked, prompts>>
       ELSE \E rows \in (SUBSET Rows(listing)) \ {{}} :
              /\ checked' = rows
              /\ prompts' = Append(prompts, [kind |-> "checkbox", answer |-> TRUE])
              /\ targets' = selectMultipleRepositories(listing,
                                SelectedValues(listing, rows))
              /\ pc' = "returned"
    /\ UNCHANGED <<remote, olderCount, username, entry, owner, isPrivate, listing,
                   calls, inflight, shown, query, stats, answers, repoName,
                   remote0, exitCode, args, token, client, rounds, authQueries,
                   idx, results, errors, runner>>

\* the caller hands over a listing: entries of distinct repositories, two of
\* which may share a name under different owners
InitSelect ==
    /\ remote = [k \in RepoKeys |-> IF k \in {<<"me", "a">>, <<"me", "b">>, <<"org", "a">>}
                                    THEN [exists |-> TRUE, private |-> FALSE,
                                          archived |-> FALSE]
                                    ELSE Absent]
    /\ remote0 = remote
    /\ olderCount = 0
    /\ username = NoUser
    /\ entry = "selectMultipleRepositories"
    /\ pc = "selectMultipleRepositories"
    /\ owner = ""
    /\ isPrivate = FALSE
    /\ listing \in {l \in SeqsUpTo({RepoRecord(remote, k) : k \in
                                       {<<"me", "a">>, <<"me", "b">>, <<"org", "a">>}},
                                   MaxOffered) :
                       \A i, j \in 1..Len(l) : l[i] = l[j] => i = j}
    /\ targets = <<>>
    /\ runner = "none"
    /\ idx = 1
    /\ results = <<>>
    /\ errors = <<>>
    /\ calls = <<>>
    /\ inflight = {}
    /\ answers = <<>>
    /\ prompts = <<>>
    /\ shown = <<>>
    /\ query = <<>>
    /\ stats = NoStats
    /\ repoName = ""
    /\ exitCode = Running
    /\ args = <<>>
    /\ token = "ghp_token"
    /\ client = "GitHubClient"
    /\ rounds = 0
    /\ authQueries = 0
    /\ checked = {}

NextSelect == SelectPrompt

SpecSelect == InitSelect /\ [][NextSelect]_vars

----------------------------------------------------------------------------
(* The mutating commands: GitHubCommands and the by-name handlers *)

SingleCmds == {"commands.deleteRepository", "commands.changeRepositoryVisibility",
               "commands.archiveRepository", "commands.unarchiveRepository"}
BulkCmds == {"commands.bulkDeleteRepositories",
             "commands.bulkChangeRepositoryVisibility",
             "commands.bulkArchiveRepositories",
             "commands.bulkUnarchiveRepositories"}
ByNameCmds == {"commands.deleteRepositoryByName",
               "manager.handleVisibilityChangeByName",
               "manager.handleArchiveByName", "manager.handleUnarchiveByName"}
MutatingCmds == SingleCmds \cup BulkCmds \cup ByNameCmds

\* the commands that change nothing on the service
ReadCmds == {"commands.listRepositories", "commands.searchRepositories",
             "commands.viewRepositoryDetails", "commands.showUserInfo",
             "commands.debugArchivedRepositories"}

\* where each command begins
StartPc(e) ==
    CASE e = "commands.bulkChangeRepositoryVisibility" -> "chooseVisibility"
      [] e \in ByNameCmds \cup {"commands.showUserInfo"} -> "username"
      [] e \in {"commands.listRepositories",
                "commands.debugArchivedRepositories"} -> "listAll"
      [] e = "commands.searchRepositories" -> "getSearchQuery"
      [] OTHER -> "list"

\* the other variant of the command layer: it fetches the full listing and
\* filters it itself (repo.private !== targetVisibility, !repo.archived,
\* repo.archived)
ClientSideEligible(e, repos, p) ==
    CASE e \in {"commands.archiveRepository", "commands.bulkArchiveRepositories"} ->
            SelectSeq(repos, LAMBDA repo : ~repo.archived)
      [] e \in {"commands.unarchiveRepository", "commands.bulkUnarchiveRepositories"} ->
            SelectSeq(repos, LAMBDA repo : repo.archived)
      [] e = "commands.bulkChangeRepositoryVisibility" ->
            SelectSeq(repos, LAMBDA repo : repo.private # p)
      [] OTHER -> repos

\* (mutant) every command offers the full listing
CmdListing_Unfiltered(e, r, older, p) == listRepositories(r, older)

\* the listing a command fetches before it offers a selection
CmdListing(e, r, older, p) ==
    CASE e \in {"commands.archiveRepository", "commands.bulkArchiveRepositories"} ->
            listActiveRepositories(r, older)
      [] e \in {"commands.unarchiveRepository", "commands.bulkUnarchiveRepositories"} ->
            listArchivedRepositories(r, older)
      [] e = "commands.bulkChangeRepositoryVisibility" ->
            IF p THEN listPublicRepositories(r, older)
            ELSE listPrivateRepositories(r, older)
      [] OTHER -> listRepositories(r, older)

\* the client runner a bulk command hands its selection to
CmdRunner(e) ==
    CASE e = "commands.bulkDeleteRepositories" -> "bulkDeleteRepositories"
      [] e = "commands.bulkChangeRepositoryVisibility" -> "bulkUpdateVisibility"
      [] e = "commands.bulkArchiveRepositories" -> "bulkArchiveRepositories"
      [] e = "commands.bulkUnarchiveRepositories" -> "bulkUnarchiveRepositories"

\* (mutant) the visibility commands send the flag they observed
CmdMutationCall_KeepVisibility(e, o, repo) ==
    CASE e \in {"commands.deleteRepository", "commands.deleteRepositoryByName"} ->
            DeleteCall(o, repo.name)
      [] e \in {"commands.changeRepositoryVisibility",
                "manager.handleVisibilityChangeByName"} ->
            UpdateCall(o, repo.name,
                       IF repo.private THEN "private:true" ELSE "private:false")
      [] e \in {"commands.archiveRepository", "manager.handleArchiveByName"} ->
            UpdateCall(o, repo.name, "archived:true")
      [] e \in {"commands.unarchiveRepository", "manager.handleUnarchiveByName"} ->
            UpdateCall(o, repo.name, "archived:false")

\* the remote call a single-item command issues for the chosen repository
CmdMutationCall(e, o, repo) ==
    CASE e \in {"commands.deleteRepository", "commands.deleteRepositoryByName"} ->
            DeleteCall(o, repo.name)
      [] e \in {"commands.changeRepositoryVisibility",
                "manager.handleVisibilityChangeByName"} ->
            UpdateCall(o, repo.name,
                       IF ~repo.private THEN "private:true" ELSE "private:false")
      [] e \in {"commands.archiveRepository", "manager.handleArchiveByName"} ->
            UpdateCall(o, repo.name, "archived:true")
      [] e \in {"commands.unarchiveRepository", "manager.handleUnarchiveByName"} ->
            UpdateCall(o, repo.name, "archived:false")

\* (mutant) bulk delete executes after the first confirmation
AfterConfirm_SkipFinal(e, answer) ==
    IF ~answer THEN "cancelled"
    ELSE IF e \in ByNameCmds THEN "mutate"
    ELSE "username"

\* (mutant) the answer of the confirmation is not looked at
AfterConfirm_IgnoreDecline(e, answer) ==
    IF e = "commands.bulkDeleteRepositories" THEN "finalConfirm"
    ELSE IF e \in ByNameCmds THEN "mutate"
    ELSE "username"

\* if (!confirm) { displayInfo('... cancelled.'); return; } and what follows
AfterConfirm(e, answer) ==
    IF ~answer THEN "cancelled"
    ELSE IF e = "commands.bulkDeleteRepositories" THEN "finalConfirm"
    ELSE IF e \in ByNameCmds THEN "mutate"
    ELSE "username"

\* if (!finalConfirm) { displayInfo('... cancelled at final confirmation.'); return; }
AfterFinalConfirm(answer) == IF ~answer THEN "cancelled" ELSE "username"

\* where a command goes once it holds the username
AfterUsername(e) ==
    CASE e \in ByNameCmds -> "verify"
      [] e \in BulkCmds -> "bulk"
      [] e = "commands.showUserInfo" -> "info.list"
      [] e = "commands.viewRepositoryDetails" -> "details.get"
      [] OTHER -> "mutate"

\* where a command ends when getUsername throws: showUserInfo shows the
\* error and rethrows it, the others show it and return
UsernameFailed(e) == IF e = "commands.showUserInfo" THEN "thrown" ELSE "done"

\* where a command goes once a repository is selected
AfterSelect(e) ==
    IF e = "commands.viewRepositoryDetails" THEN "username" ELSE "confirm"

runnerLocals == <<idx, results, errors, runner>>

\* bulkChangeRepositoryVisibility: the targetVisibility prompt
CmdChooseVisibility ==
    /\ pc = "chooseVisibility"
    /\ \E p \in BOOLEAN : isPrivate' = p
    /\ pc' = "list"
    /\ UNCHANGED <<remote, olderCount, username, entry, owner, listing, targets,
                   calls, inflight, prompts, shown, query, stats, answers,
                   repoName, remote0, procLocals, runnerLocals>>

\* const repos = await this.client.list...Repositories(); if (repos.length === 0) ...
CmdList ==
    /\ pc = "list"
    /\ \E a \in ListAnswers :
         /\ calls' = Append(calls, ListCall)
         /\ answers' = Append(answers, [call |-> ListCall, answer |-> a])
         /\ IF a # "ok"
            THEN /\ listing' = listing
                 /\ shown' = Append(shown, "error")
                 /\ pc' = "done"
            ELSE LET repos == CmdListing(entry, remote, olderCount, isPrivate) IN
                 /\ listing' = repos
                 /\ IF repos = <<>>
                    THEN /\ shown' = Append(shown, "nothing to do")
                         /\ pc' = "done"
                    ELSE /\ shown' = shown
                         /\ pc' = IF entry \in BulkCmds THEN "selectMany" ELSE "select"
    /\ UNCHANGED <<remote, olderCount, username, entry, owner, isPrivate, targets,
                   inflight, prompts, query, stats, repoName, remote0, procLocals,
                   runnerLocals>>

\* const selectedRepo = await selectRepository(repos, ...); displayRepository(...)
CmdSelectOne ==
    /\ pc = "select"
    /\ \E i \in 1..Len(listing) : targets' = <<listing[i]>>
    /\ shown' = IF AfterSelect(entry) = "confirm"
                THEN Append(shown, "details") ELSE shown
    /\ pc' = AfterSelect(entry)
    /\ UNCHANGED <<remote, olderCount, username, entry, owner, isPrivate, listing,
                   calls, inflight, prompts, query, stats, answers, repoName,
                   remote0, procLocals, runnerLocals>>

\* const selectedRepos = await selectMultipleRepositories(repos, ...);
\* if (selectedRepos.length === 0) return; bulk delete then lists the selection
CmdSelectMany ==
    /\ pc = "selectMany"
    /\ \E rows \in (SUBSET Rows(listing)) \ {{}} :
         LET sel == selectMultipleRepositories(listing, SelectedValues(listing, rows)) IN
         /\ targets' = sel
         /\ IF sel = <<>>
            THEN /\ shown' = Append(shown, "nothing selected")
                 /\ pc' = "done"
            ELSE /\ shown' = IF entry = "commands.bulkDeleteRepositories"
                             THEN Append(shown, "review") ELSE shown
                 /\ pc' = "confirm"
    /\ UNCHANGED <<remote, olderCount, username, entry, owner, isPrivate, listing,
                   calls, inflight, prompts, query, stats, answers, repoName,
                   remote0, procLocals, runnerLocals>>

\* const confirm = await confirmAction(...) / confirmBulkAction(...)
CmdConfirm ==
    /\ pc = "confirm"
    /\ \E answer \in BOOLEAN :
         /\ prompts' = Append(prompts,
                [kind |-> IF entry \in BulkCmds THEN "confirmBulkAction"
                          ELSE "confirmAction",
                 answer |-> answer])
         /\ pc' = AfterConfirm(entry, answer)
         /\ shown' = IF AfterConfirm(entry, answer) = "cancelled"
                     THEN Append(shown, "cancelled") ELSE shown
    /\ UNCHANGED <<remote, olderCount, username, entry, owner, isPrivate, listing,
                   targets, calls, inflight, query, stats, answers, repoName,
                   remote0, procLocals, runnerLocals>>

\* bulk delete: const finalConfirm = await confirmAction(FINAL WARNING ...)
CmdFinalConfirm ==
    /\ pc = "finalConfirm"
    /\ \E answer \in BOOLEAN :
         /\ prompts' = Append(prompts, [kind |-> "confirmAction", answer |-> answer])
         /\ pc' = AfterFinalConfirm(answer)
         /\ shown' = IF AfterFinalConfirm(answer) = "cancelled"
                     THEN Append(shown, "cancelled") ELSE shown
    /\ UNCHANGED <<remote, olderCount, username, entry, owner, isPrivate, listing,
                   targets, calls, inflight, query, stats, answers, repoName,
                   remote0, procLocals, runnerLocals>>

\* const username = await this.client.getUsername(); a bulk command then
\* enters the client's runner (results = [], errors = [])
CmdGetUsername ==
    /\ pc = "username"
    /\ \E a \in AuthAnswers :
         LET g == getUsername(username, a) IN
         /\ username' = g.username
         /\ calls' = IF g.queried THEN Append(calls, AuthCall) ELSE calls
         /\ answers' = IF g.queried
                       THEN Append(answers, [call |-> AuthCall, answer |-> a])
                       ELSE answers
         /\ authQueries' = IF g.queried /\ g.ok THEN authQueries + 1
                           ELSE authQueries
         /\ IF g.ok
            THEN /\ owner' = g.value
                 /\ pc' = AfterUsername(entry)
                 /\ shown' = shown
            ELSE /\ owner' = owner
                 /\ pc' = UsernameFailed(entry)
                 /\ shown' = Append(shown, "error")
    /\ IF pc' = "bulk"
       THEN /\ runner' = CmdRunner(entry)
            /\ idx' = 1
            /\ results' = <<>>
            /\ errors' = <<>>
       ELSE UNCHANGED runnerLocals
    /\ UNCHANGED <<remote, olderCount, entry, isPrivate, listing, targets,
                   inflight, prompts, query, stats, repoName, remote0, exitCode,
                   args, token, checked,
                   client, rounds>>

\* (mutant) by name: a failed verifying fetch is shown but the flow goes on
CmdVerify_IgnoreFailure ==
    /\ pc = "verify"
    /\ \E a \in GetAnswers(remote, owner, repoName) :
         /\ calls' = Append(calls, GetCall(owner, repoName))
         /\ answers' = Append(answers,
                              [call |-> GetCall(owner, repoName), answer |-> a])
         /\ shown' = Append(shown, IF a = "ok" THEN "details" ELSE "error")
         /\ pc' = "confirm"
         /\ targets' = <<[name |-> repoName, full_name |-> <<owner, repoName>>,
                          private |-> FALSE, archived |-> FALSE]>>
    /\ UNCHANGED <<remote, olderCount, username, entry, owner, isPrivate, listing,
                   inflight, prompts, query, stats, repoName, remote0, procLocals,
                   runnerLocals>>

\* (mutant) the archive handlers do not look at repo.archived
CmdVerify_NoStateCheck ==
    /\ pc = "verify"
    /\ \E a \in GetAnswers(remote, owner, repoName) :
         /\ calls' = Append(calls, GetCall(owner, repoName))
         /\ answers' = Append(answers,
                              [call |-> GetCall(owner, repoName), answer |-> a])
         /\ IF a # "ok"
            THEN /\ shown' = Append(shown, "error")
                 /\ pc' = "done"
                 /\ targets' = targets
            ELSE /\ shown' = Append(shown, "details")
                 /\ pc' = "confirm"
                 /\ targets' = <<RepoRecord(remote, <<owner, repoName>>)>>
    /\ UNCHANGED <<remote, olderCount, username, entry, owner, isPrivate, listing,
                   inflight, prompts, query, stats, repoName, remote0, procLocals,
                   runnerLocals>>

\* by name: const repo = await client.getRepository(username, repoName); the
\* archive handlers stop when the repository already is in the wanted state
CmdVerify ==
    /\ pc = "verify"
    /\ \E a \in GetAnswers(remote, owner, repoName) :
         /\ calls' = Append(calls, GetCall(owner, repoName))
         /\ answers' = Append(answers,
                              [call |-> GetCall(owner, repoName), answer |-> a])
         /\ IF a # "ok"
            THEN /\ shown' = Append(shown, "error")
                 /\ pc' = "done"
                 /\ targets' = targets
            ELSE LET repo == RepoRecord(remote, <<owner, repoName>>) IN
                 IF \/ entry = "manager.handleArchiveByName" /\ repo.archived
                    \/ entry = "manager.handleUnarchiveByName" /\ ~repo.archived
                 THEN /\ shown' = Append(shown, "warning")
                      /\ pc' = "done"
                      /\ targets' = targets
                 ELSE /\ shown' = Append(shown, "details")
                      /\ pc' = "confirm"
                      /\ targets' = <<repo>>
    /\ UNCHANGED <<remote, olderCount, username, entry, owner, isPrivate, listing,
                   inflight, prompts, query, stats, repoName, remote0, procLocals,
                   runnerLocals>>

\* try { await this.client.<op>(username, name ...); displaySuccess }
\* catch (error) { displayError(error) }
CmdMutate ==
    /\ pc = "mutate"
    /\ LET c == CmdMutationCall(entry, owner, targets[1]) IN
       \E a \in RemoteAnswers(remote, c) :
         /\ calls' = Append(calls, c)
         /\ answers' = Append(answers, [call |-> c, answer |-> a])
         /\ remote' = IF a = "ok" THEN RemoteApply(remote, c) ELSE remote
         /\ shown' = Append(shown, IF a = "ok" THEN "success" ELSE "error")
    /\ pc' = "done"
    /\ UNCHANGED <<olderCount, username, entry, owner, isPrivate, listing, targets,
                   inflight, prompts, query, stats, repoName, remote0, procLocals,
                   runnerLocals>>

\* displayBulkResults(results, errors, ...)
CmdReport ==
    /\ pc = "report"
    /\ shown' = Append(shown, "results")
    /\ pc' = "done"
    /\ UNCHANGED <<remote, olderCount, username, entry, owner, isPrivate, listing,
                   targets, calls, inflight, prompts, query, stats, answers,
                   repoName, remote0, procLocals, runnerLocals>>

InitCmd ==
    /\ remote \in [RepoKeys -> RepoStates]
    /\ remote[<<"org", "a">>] \in {Absent, [exists |-> TRUE, private |-> FALSE,
                                           archived |-> FALSE]}
    /\ remote0 = remote
    /\ olderCount \in {0, (PageNo - 1) * PerPage}
    /\ username \in {NoUser, Login}
    /\ entry \in MutatingCmds
    /\ repoName \in (IF entry \in ByNameCmds THEN Names ELSE {""})
    /\ pc = StartPc(entry)
    /\ owner = ""
    /\ isPrivate = FALSE
    /\ listing = <<>>
    /\ targets = <<>>
    /\ runner = "none"
    /\ idx = 1
    /\ results = <<>>
    /\ errors = <<>>
    /\ calls = <<>>
    /\ inflight = {}
    /\ answers = <<>>
    /\ prompts = <<>>
    /\ shown = <<>>
    /\ query = <<>>
    /\ stats = NoStats
    /\ exitCode = Running
    /\ args = <<>>
    /\ token = "ghp_token"
    /\ client = "GitHubClient"
    /\ rounds = 0
    /\ authQueries = 0
    /\ checked = {}

NextCmd ==
    \/ CmdChooseVisibility
    \/ CmdList
    \/ CmdSelectOne
    \/ CmdSelectMany
    \/ CmdConfirm
    \/ CmdFinalConfirm
    \/ CmdGetUsername
    \/ CmdVerify
    \/ CmdMutate
    \/ BulkIssue
    \/ BulkSettle
    \/ BulkReturn
    \/ CmdReport

SpecCmd == InitCmd /\ [][NextCmd]_vars

\* The same commands under the scheduling the runtime gives them: a
\* continuation that is ready to run is run (the loop's next iteration, its
\* return, the report), and every awaited remote call settles, by an answer
\* of the service or by a failure of the request.
SpecCmdFair ==
    /\ InitCmd
    /\ [][NextCmd]_vars
    /\ WF_vars(BulkIssue)
    /\ WF_vars(BulkSettle)
    /\ WF_vars(BulkReturn)
    /\ WF_vars(CmdReport)

----------------------------------------------------------------------------
(* A direct call of one of the client's listing operations *)

ListIssue ==
    /\ pc = "listRepositories"
    /\ calls' = Append(calls, ListCall)
    /\ inflight' = inflight \cup {ListCall}
    /\ pc' = "listRepositories_await"
    /\ UNCHANGED <<remote, olderCount, username, entry, owner, isPrivate, listing,
                   targets, prompts, shown, query, stats, answers, repoName,
                   remote0, procLocals, runnerLocals>>

\* return repos.map(...) / catch: throw new Error(`Failed to list repositories: ...`)
ListSettle ==
    /\ pc = "listRepositories_await"
    /\ \E a \in ListAnswers :
         /\ answers' = Append(answers, [call |-> ListCall, answer |-> a])
         /\ IF a = "ok"
            THEN /\ listing' = ListResult(entry, remote, olderCount)
                 /\ pc' = "returned"
            ELSE /\ listing' = listing
                 /\ pc' = "thrown"
    /\ inflight' = inflight \ {ListCall}
    /\ UNCHANGED <<remote, olderCount, username, entry, owner, isPrivate, targets,
                   calls, prompts, shown, query, stats, repoName, remote0,
                   procLocals, runnerLocals>>

InitList ==
    /\ remote \in [RepoKeys -> RepoStates]
    /\ remote0 = remote
    /\ olderCount \in {0, (PageNo - 1) * PerPage}
    /\ username \in {NoUser, Login}
    /\ entry \in ListOps
    /\ pc = "listRepositories"
    /\ repoName = ""
    /\ owner = ""
    /\ isPrivate = FALSE
    /\ listing = <<>>
    /\ targets = <<>>
    /\ runner = "none"
    /\ idx = 1
    /\ results = <<>>
    /\ errors = <<>>
    /\ calls = <<>>
    /\ inflight = {}
    /\ answers = <<>>
    /\ prompts = <<>>
    /\ shown = <<>>
    /\ query = <<>>
    /\ stats = NoStats
    /\ exitCode = Running
    /\ args = <<>>
    /\ token = "ghp_token"
    /\ client = "GitHubClient"
    /\ rounds = 0
    /\ authQueries = 0
    /\ checked = {}

NextList == ListIssue \/ ListSettle

SpecList == InitList /\ [][NextList]_vars

----------------------------------------------------------------------------
(* Searching: the prompt, the `search <query>` argument, the client call *)

\* a query is a string over these characters
Chars == {" ", "a"}
MaxQueryLen == 2
MaxReprompts == 2
Queries == SeqsUpTo(Chars, MaxQueryLen)

\* String.prototype.trim on a string of Chars
RECURSIVE TrimLeft(_)
TrimLeft(q) == IF q # <<>> /\ Head(q) = " " THEN TrimLeft(Tail(q)) ELSE q
RECURSIVE TrimRight(_)
TrimRight(q) ==
    IF q # <<>> /\ q[Len(q)] = " " THEN TrimRight(SubSeq(q, 1, Len(q) - 1)) ELSE q
Trim(q) == TrimRight(TrimLeft(q))

SearchCall(q, u) == [api |-> "search.repos", owner |-> u, repo |-> "", arg |-> ""]

InQuery(q, n) == \E j \in 1..Len(q) : q[j] = n

\* what the service finds: the user's repositories whose name is in the query
SearchItems(r, q, u) ==
    SelectSeq(KeyOrder, LAMBDA k : r[k].exists /\ k[1] = u /\ InQuery(q, k[2]))

SearchEntries == {"commands.searchRepositories", "cli.search",
                  "client.searchRepositories"}

\* where a failed search ends: the client throws; the command shows the
\* error and rethrows it; `search <query>` catches it and shows it
SearchFailed(e) == IF e = "cli.search" THEN "done" ELSE "thrown"

\* index.js, case 'search': if (args[1]) the client is called with args[1],
\* else the command prompts for the query
CliSearchDispatch ==
    /\ pc = "cli.search"
    /\ IF Len(query) > 0
       THEN /\ pc' = "searchRepositories"
            /\ entry' = entry
       ELSE /\ pc' = "getSearchQuery"
            /\ entry' = "commands.searchRepositories"
    /\ UNCHANGED <<remote, olderCount, username, owner, isPrivate, listing,
                   targets, calls, inflight, prompts, shown, query, stats, answers,
                   repoName, remote0, procLocals, runnerLocals>>

\* getSearchQuery: the prompt validates input.trim().length and asks again
\* until it is not 0; the command gets query.trim()
SearchPrompt ==
    /\ pc = "getSearchQuery"
    /\ \E input \in Queries :
         IF Len(Trim(input)) = 0
         THEN /\ shown' = Append(shown, "Search query cannot be empty")
              /\ Len(shown) < MaxReprompts
              /\ UNCHANGED <<pc, query>>
         ELSE /\ query' = Trim(input)
              /\ pc' = "searchRepositories"
              /\ shown' = shown
    /\ UNCHANGED <<remote, olderCount, username, entry, owner, isPrivate, listing,
                   targets, calls, inflight, prompts, stats, answers, repoName,
                   remote0, procLocals, runnerLocals>>

\* searchRepositories: const username = await this.getUsername()
SearchGetUsername ==
    /\ pc = "searchRepositories"
    /\ \E a \in AuthAnswers :
         LET g == getUsername(username, a) IN
         /\ username' = g.username
         /\ calls' = IF g.queried THEN Append(calls, AuthCall) ELSE calls
         /\ answers' = IF g.queried
                       THEN Append(answers, [call |-> AuthCall, answer |-> a])
                       ELSE answers
         /\ authQueries' = IF g.queried /\ g.ok THEN authQueries + 1
                           ELSE authQueries
         /\ IF g.ok
            THEN /\ owner' = g.value
                 /\ pc' = "search.repos"
                 /\ shown' = shown
            ELSE /\ owner' = owner
                 /\ pc' = SearchFailed(entry)
                 /\ shown' = IF entry = "client.searchRepositories"
                             THEN shown ELSE Append(shown, "error")
    /\ UNCHANGED <<remote, olderCount, entry, isPrivate, listing, targets,
                   inflight, prompts, query, stats, repoName, remote0, exitCode,
                   args, token, checked,
                   client, rounds, runnerLocals>>

\* searchRepositories: await this.octokit.search.repos({ q: `${query} user:${username}` })
SearchRequest ==
    /\ pc = "search.repos"
    /\ LET c == SearchCall(query, owner) IN
       \E a \in ListAnswers :
         /\ calls' = Append(calls, c)
         /\ answers' = Append(answers, [call |-> c, answer |-> a])
         /\ IF a = "ok"
            THEN /\ listing' = [j \in 1..Len(SearchItems(remote, query, owner)) |->
                                  RepoRecord(remote, SearchItems(remote, query, owner)[j])]
                 /\ pc' = IF entry = "client.searchRepositories"
                          THEN "returned" ELSE "done"
                 /\ shown' = IF entry = "client.searchRepositories"
                             THEN shown ELSE Append(shown, "list")
            ELSE /\ listing' = listing
                 /\ pc' = SearchFailed(entry)
                 /\ shown' = IF entry = "client.searchRepositories"
                             THEN shown ELSE Append(shown, "error")
    /\ UNCHANGED <<remote, olderCount, username, entry, owner, isPrivate, targets,
                   inflight, prompts, query, stats, repoName, remote0, procLocals,
                   runnerLocals>>

InitSearch ==
    /\ \E ex \in SUBSET OwnKeys :
          remote = [k \in RepoKeys |->
                      IF k \in ex THEN [exists |-> TRUE, private |-> FALSE,
                                        archived |-> FALSE]
                      ELSE Absent]
    /\ remote0 = remote
    /\ olderCount = 0
    /\ username \in {NoUser, Login}
    /\ entry \in SearchEntries
    /\ pc = (IF entry = "commands.searchRepositories" THEN "getSearchQuery"
             ELSE IF entry = "cli.search" THEN "cli.search"
             ELSE "searchRepositories")
    /\ query \in (IF entry = "commands.searchRepositories" THEN {<<>>} ELSE Queries)
    /\ repoName = ""
    /\ owner = ""
    /\ isPrivate = FALSE
    /\ listing = <<>>
    /\ targets = <<>>
    /\ runner = "none"
    /\ idx = 1
    /\ results = <<>>
    /\ errors = <<>>
    /\ calls = <<>>
    /\ inflight = {}
    /\ answers = <<>>
    /\ prompts = <<>>
    /\ shown = <<>>
    /\ stats = NoStats
    /\ exitCode = Running
    /\ args = <<>>
    /\ token = "ghp_token"
    /\ client = "GitHubClient"
    /\ rounds = 0
    /\ authQueries = 0
    /\ checked = {}

NextSearch ==
    \/ CliSearchDispatch
    \/ SearchPrompt
    \/ SearchGetUsername
    \/ SearchRequest

SpecSearch == InitSearch /\ [][NextSearch]_vars

----------------------------------------------------------------------------
(* A direct call of GitHubClient.getRepositoryStats *)

StatsCall(sub, o, n) ==
    [api |-> (CASE sub = "contributors" -> "repos.listContributors"
                [] sub = "languages" -> "repos.listLanguages"
                [] sub = "commits" -> "repos.listCommits"),
     owner |-> o, repo |-> n,
     arg |-> IF sub = "commits" THEN "per_page:1" ELSE ""]

\* what the service can answer to each sub-fetch: a failure, or data
SubOutcomes(sub) ==
    {[ok |-> FALSE, data |-> SubDefault(sub)]} \cup
    {[ok |-> TRUE, data |-> d] :
        d \in (CASE sub = "contributors" -> {<<>>, <<"u1">>, <<"u1", "u2">>}
                 [] sub = "languages" -> {{}, {"JavaScript"}}
                 [] sub = "commits" -> {<<>>, <<"commit1">>})}

\* (mutant) the sub-fetch has no .catch: its rejection reaches Promise.all
SubFetchCaught_NoCatch(sub, outcome) == outcome

\* <sub-fetch>.catch(() => ({ data: [] })) (languages: { data: {} })
SubFetchCaught(sub, outcome) ==
    IF outcome.ok THEN outcome ELSE [ok |-> TRUE, data |-> SubDefault(sub)]

\* { contributors_count: contributors.data.length, languages: languages.data,
\*   last_commit: commits.data[0] || null }
StatsResult(contributors, languages, commits) ==
    [contributors_count |-> Len(contributors.data),
     languages |-> languages.data,
     last_commit |-> IF commits.data = <<>> THEN Null ELSE commits.data[1]]

\* Promise.all([listContributors(...), listLanguages(...), listCommits(...)]):
\* the three requests are issued one after the other without waiting
StatsIssue ==
    /\ pc = "getRepositoryStats"
    /\ calls' = calls \o <<StatsCall("contributors", owner, repoName),
                           StatsCall("languages", owner, repoName),
                           StatsCall("commits", owner, repoName)>>
    /\ inflight' = inflight \cup {StatsCall(sub, owner, repoName) : sub \in Subs}
    /\ pc' = "Promise.all"
    /\ UNCHANGED <<remote, olderCount, username, entry, owner, isPrivate, listing,
                   targets, prompts, shown, query, stats, answers, repoName,
                   remote0, procLocals, runnerLocals>>

\* one of the pending sub-fetches settles
StatsSettle ==
    /\ pc = "Promise.all"
    /\ \E sub \in Subs :
         /\ StatsCall(sub, owner, repoName) \in inflight
         /\ \E outcome \in SubOutcomes(sub) :
              /\ stats' = [stats EXCEPT ![sub] = outcome]
              /\ answers' = Append(answers,
                     [call |-> StatsCall(sub, owner, repoName),
                      answer |-> IF outcome.ok THEN "ok" ELSE "Not Found"])
         /\ inflight' = inflight \ {StatsCall(sub, owner, repoName)}
    /\ UNCHANGED <<remote, olderCount, username, entry, pc, owner, isPrivate,
                   listing, targets, calls, prompts, shown, query, repoName,
                   remote0, procLocals, runnerLocals>>

\* (mutant) the call returns as soon as one sub-fetch has settled
StatsReturn_NoWait ==
    /\ pc = "Promise.all"
    /\ inflight # {StatsCall(sub, owner, repoName) : sub \in Subs}
    /\ results' = <<StatsResult(SubFetchCaught("contributors", stats["contributors"]),
                                SubFetchCaught("languages", stats["languages"]),
                                SubFetchCaught("commits", stats["commits"]))>>
    /\ pc' = "returned"
    /\ UNCHANGED <<remote, olderCount, username, entry, owner, isPrivate, listing,
                   targets, idx, errors, runner, calls, inflight, prompts, shown,
                   query, stats, answers, repoName, remote0, procLocals>>

\* all three have settled: the call returns the aggregate, or throws
\* `Failed to get repository stats` when Promise.all rejected
StatsReturn ==
    /\ pc = "Promise.all"
    /\ inflight = {}
    /\ LET contributors == SubFetchCaught("contributors", stats["contributors"])
           languages == SubFetchCaught("languages", stats["languages"])
           commits == SubFetchCaught("commits", stats["commits"])
       IN  IF contributors.ok /\ languages.ok /\ commits.ok
           THEN /\ results' = <<StatsResult(contributors, languages, commits)>>
                /\ pc' = "returned"
           ELSE /\ results' = results
                /\ pc' = "thrown"
    /\ UNCHANGED <<remote, olderCount, username, entry, owner, isPrivate, listing,
                   targets, idx, errors, runner, calls, inflight, prompts, shown,
                   query, stats, answers, repoName, remote0, procLocals>>

InitStats ==
    /\ \E ex \in SUBSET OwnKeys :
          remote = [k \in RepoKeys |->
                      IF k \in ex THEN [exists |-> TRUE, private |-> FALSE,
                                        archived |-> FALSE]
                      ELSE Absent]
    /\ remote0 = remote
    /\ olderCount = 0
    /\ username = Login
    /\ entry = "getRepositoryStats"
    /\ pc = "getRepositoryStats"
    /\ owner \in Owners
    /\ repoName \in Names
    /\ isPrivate = FALSE
    /\ listing = <<>>
    /\ targets = <<>>
    /\ runner = "none"
    /\ idx = 1
    /\ results = <<>>
    /\ errors = <<>>
    /\ calls = <<>>
    /\ inflight = {}
    /\ answers = <<>>
    /\ prompts = <<>>
    /\ shown = <<>>
    /\ query = <<>>
    /\ stats = NoStats
    /\ exitCode = Running
    /\ args = <<>>
    /\ token = "ghp_token"
    /\ client = "GitHubClient"
    /\ rounds = 0
    /\ authQueries = 0
    /\ checked = {}

NextStats == StatsIssue \/ StatsSettle \/ StatsReturn

SpecStats == InitStats /\ [][NextStats]_vars

----------------------------------------------------------------------------
(* Direct calls of the client's single-item operations *)

MaxInvocations == 2

ClientOps == {"getRepository", "deleteRepository", "updateRepositoryVisibility",
              "archiveRepository", "unarchiveRepository"}
UpdateOps == {"updateRepositoryVisibility", "archiveRepository",
              "unarchiveRepository"}

\* getRepository: the mapped repository, or the wrapped error
getRepository(r, o, n, a) ==
    IF a = "ok" THEN [ok |-> TRUE, value |-> RepoRecord(r, <<o, n>>)]
    ELSE [ok |-> FALSE, error |-> Wrapped("Failed to get repository", a)]

\* the object a client operation throws: throw new Error(message)
ThrownError(message) == [kind |-> "Error", message |-> message]

\* the request operation op sends for (owner, repo[, isPrivate])
ClientCall(op, o, n, p) ==
    CASE op = "getRepository" -> GetCall(o, n)
      [] op = "deleteRepository" -> DeleteCall(o, n)
      [] op = "updateRepositoryVisibility" ->
            UpdateCall(o, n, IF p THEN "private:true" ELSE "private:false")
      [] op = "archiveRepository" -> UpdateCall(o, n, "archived:true")
      [] op = "unarchiveRepository" -> UpdateCall(o, n, "archived:false")

\* what op gives back for answer a (r: the remote state after the call)
ClientOutcome(op, r, o, n, a) ==
    CASE op = "getRepository" -> getRepository(r, o, n, a)
      [] op = "deleteRepository" -> deleteRepository(o, n, a)
      [] op = "updateRepositoryVisibility" -> updateRepositoryVisibility(r, o, n, a)
      [] op = "archiveRepository" -> archiveRepository(r, o, n, a)
      [] op = "unarchiveRepository" -> unarchiveRepository(r, o, n, a)

\* the answers of the service to a request of the client
ClientAnswers(r, c) ==
    IF IsMutation(c) THEN RemoteAnswers(r, c) ELSE GetAnswers(r, c.owner, c.repo)

\* whether the repository already has the value the update would set
AlreadySet(op, r, o, n, p) ==
    /\ Exists(r, o, n)
    /\ CASE op = "updateRepositoryVisibility" -> r[<<o, n>>].private = p
         [] op = "archiveRepository" -> r[<<o, n>>].archived
         [] op = "unarchiveRepository" -> ~r[<<o, n>>].archived
         [] OTHER -> FALSE

\* (mutant) an update whose value is already set returns without a request
ClientIssue_SkipWhenSet ==
    /\ pc = "client.call"
    /\ IF AlreadySet(entry, remote, owner, repoName, isPrivate)
       THEN /\ results' = Append(results,
                   ClientOutcome(entry, remote, owner, repoName, "ok").value)
            /\ pc' = "returned"
            /\ UNCHANGED <<calls, inflight>>
       ELSE /\ calls' = Append(calls, ClientCall(entry, owner, repoName, isPrivate))
            /\ inflight' = inflight \cup
                              {ClientCall(entry, owner, repoName, isPrivate)}
            /\ pc' = "client.await"
            /\ results' = results
    /\ UNCHANGED <<remote, olderCount, username, entry, owner, isPrivate, listing,
                   targets, prompts, shown, query, stats, answers, repoName,
                   remote0, procLocals, idx, errors, runner>>

\* try { await this.octokit.repos.<api>({...})
ClientIssue ==
    /\ pc = "client.call"
    /\ calls' = Append(calls, ClientCall(entry, owner, repoName, isPrivate))
    /\ inflight' = inflight \cup {ClientCall(entry, owner, repoName, isPrivate)}
    /\ pc' = "client.await"
    /\ results' = results
    /\ UNCHANGED <<remote, olderCount, username, entry, owner, isPrivate, listing,
                   targets, prompts, shown, query, stats, answers, repoName,
                   remote0, procLocals, idx, errors, runner>>

\* the request settles: return the mapped data, or throw the wrapped error
ClientSettle ==
    /\ pc = "client.await"
    /\ LET c == ClientCall(entry, owner, repoName, isPrivate) IN
       \E a \in ClientAnswers(remote, c) :
         LET r2 == IF a = "ok" /\ IsMutation(c) THEN RemoteApply(remote, c)
                   ELSE remote
             out == ClientOutcome(entry, r2, owner, repoName, a)
         IN  /\ remote' = r2
             /\ answers' = Append(answers, [call |-> c, answer |-> a])
             /\ inflight' = inflight \ {c}
             /\ IF out.ok
                THEN /\ results' = Append(results, out.value)
                     /\ errors' = errors
                     /\ pc' = "returned"
                ELSE /\ results' = results
                     /\ errors' = Append(errors, ThrownError(out.error))
                     /\ pc' = "thrown"
    /\ UNCHANGED <<olderCount, username, entry, owner, isPrivate, listing, targets,
                   calls, prompts, shown, query, stats, repoName, remote0,
                   procLocals, idx, runner>>

\* the caller invokes the same operation again with the same arguments
ClientAgain ==
    /\ pc \in {"returned", "thrown"}
    /\ idx < MaxInvocations
    /\ idx' = idx + 1
    /\ remote0' = remote
    /\ pc' = "client.call"
    /\ UNCHANGED <<remote, olderCount, username, entry, owner, isPrivate, listing,
                   targets, calls, inflight, prompts, shown, query, stats, answers,
                   repoName, procLocals, results, errors, runner>>

InitClient ==
    /\ \E sa, sb, so \in RepoStates :
          remote = [k \in RepoKeys |->
                      IF k = <<"me", "a">> THEN sa
                      ELSE IF k = <<"me", "b">> THEN sb
                      ELSE IF k = <<"org", "a">> THEN so ELSE Absent]
    /\ remote0 = remote
    /\ olderCount = 0
    /\ username = Login
    /\ entry \in ClientOps
    /\ pc = "client.call"
    /\ owner \in Owners
    /\ repoName \in Names
    /\ isPrivate \in (IF entry = "updateRepositoryVisibility" THEN BOOLEAN
                      ELSE {FALSE})
    /\ listing = <<>>
    /\ targets = <<>>
    /\ runner = "none"
    /\ idx = 1
    /\ results = <<>>
    /\ errors = <<>>
    /\ calls = <<>>
    /\ inflight = {}
    /\ answers = <<>>
    /\ prompts = <<>>
    /\ shown = <<>>
    /\ query = <<>>
    /\ stats = NoStats
    /\ exitCode = Running
    /\ args = <<>>
    /\ token = "ghp_token"
    /\ client = "GitHubClient"
    /\ rounds = 0
    /\ authQueries = 0
    /\ checked = {}

NextClient == ClientIssue \/ ClientSettle \/ ClientAgain

SpecClient == InitClient /\ [][NextClient]_vars

----------------------------------------------------------------------------
(* The commands that only read *)

\* showUserInfo: the counts it prints for `repos`
InfoSummary(repos) ==
    [total |-> Len(repos),
     public |-> Len(SelectSeq(repos, LAMBDA repo : ~repo.private)),
     private |-> Len(SelectSeq(repos, LAMBDA repo : repo.private)),
     archived |-> Len(SelectSeq(repos, LAMBDA repo : repo.archived))]

\* where a failed listing ends: listRepositories and showUserInfo show the
\* error and rethrow it, debugArchivedRepositories shows it and returns
ListFailed(e) ==
    IF e = "commands.debugArchivedRepositories" THEN "done" ELSE "thrown"

\* listRepositories / debugArchivedRepositories of the command layer
CmdListAll ==
    /\ pc = "listAll"
    /\ \E a \in ListAnswers :
         /\ calls' = Append(calls, ListCall)
         /\ answers' = Append(answers, [call |-> ListCall, answer |-> a])
         /\ IF a = "ok"
            THEN /\ listing' = listRepositories(remote, olderCount)
                 /\ shown' = Append(shown, "list")
                 /\ pc' = "done"
            ELSE /\ listing' = listing
                 /\ shown' = Append(shown, "error")
                 /\ pc' = ListFailed(entry)
    /\ UNCHANGED <<remote, olderCount, username, entry, owner, isPrivate, targets,
                   inflight, prompts, query, stats, repoName, remote0, procLocals,
                   runnerLocals>>

\* showUserInfo after getUsername: const repos = await listRepositories();
\* the summary is printed
CmdInfoList ==
    /\ pc = "info.list"
    /\ \E a \in ListAnswers :
         /\ calls' = Append(calls, ListCall)
         /\ answers' = Append(answers, [call |-> ListCall, answer |-> a])
         /\ IF a = "ok"
            THEN /\ listing' = listRepositories(remote, olderCount)
                 /\ results' = <<InfoSummary(listRepositories(remote, olderCount))>>
                 /\ shown' = Append(shown, "info")
                 /\ pc' = "done"
            ELSE /\ listing' = listing
                 /\ results' = results
                 /\ shown' = Append(shown, "error")
                 /\ pc' = ListFailed(entry)
    /\ UNCHANGED <<remote, olderCount, username, entry, owner, isPrivate, targets,
                   inflight, prompts, query, stats, repoName, remote0, procLocals,
                   idx, errors, runner>>

\* viewRepositoryDetails after getUsername: getRepository, then
\* getRepositoryStats (each of its sub-fetches is caught); any error is shown
CmdDetails ==
    /\ pc = "details.get"
    /\ LET n == targets[1].name IN
       \E a \in GetAnswers(remote, owner, n) :
         /\ calls' = calls \o
                IF a = "ok"
                THEN <<GetCall(owner, n), StatsCall("contributors", owner, n),
                       StatsCall("languages", owner, n),
                       StatsCall("commits", owner, n)>>
                ELSE <<GetCall(owner, n)>>
         /\ answers' = Append(answers, [call |-> GetCall(owner, n), answer |-> a])
         /\ shown' = Append(shown, IF a = "ok" THEN "details" ELSE "error")
    /\ pc' = "done"
    /\ UNCHANGED <<remote, olderCount, username, entry, owner, isPrivate, listing,
                   targets, inflight, prompts, query, stats, repoName, remote0,
                   procLocals, runnerLocals>>

----------------------------------------------------------------------------
(* The process: command-line mode and interactive mode (index.js) *)

MaxRounds == 2

\* the first command-line argument
CliWords == {"list", "search", "visibility", "archive", "unarchive", "delete",
             "bulk-delete", "info", "help", "frobnicate"}
ByNameWords == {"visibility", "archive", "unarchive", "delete"}

\* the values of the main menu
MenuActions == {"list", "search", "details", "visibility", "bulkVisibility",
                "archive", "bulkArchive", "unarchive", "bulkUnarchive", "delete",
                "bulkDelete", "deleteByName", "userInfo", "debugArchived", "exit"}

\* handleAction: the command each menu action runs
MenuEntry(action) ==
    CASE action = "list" -> "commands.listRepositories"
      [] action = "search" -> "commands.searchRepositories"
      [] action = "details" -> "commands.viewRepositoryDetails"
      [] action = "visibility" -> "commands.changeRepositoryVisibility"
      [] action = "bulkVisibility" -> "commands.bulkChangeRepositoryVisibility"
      [] action = "archive" -> "commands.archiveRepository"
      [] action = "bulkArchive" -> "commands.bulkArchiveRepositories"
      [] action = "unarchive" -> "commands.unarchiveRepository"
      [] action = "bulkUnarchive" -> "commands.bulkUnarchiveRepositories"
      [] action = "delete" -> "commands.deleteRepository"
      [] action = "bulkDelete" -> "commands.bulkDeleteRepositories"
      [] action = "deleteByName" -> "commands.deleteRepositoryByName"
      [] action = "userInfo" -> "commands.showUserInfo"
      [] action = "debugArchived" -> "commands.debugArchivedRepositories"

\* the switch of command-line mode: the command args[0] runs, given whether
\* args[1] is there
CliEntry(word, hasArg) ==
    CASE word = "list" -> "commands.listRepositories"
      [] word = "search" -> "cli.search"
      [] word = "visibility" -> IF hasArg THEN "manager.handleVisibilityChangeByName"
                                ELSE "commands.changeRepositoryVisibility"
      [] word = "archive" -> IF hasArg THEN "manager.handleArchiveByName"
                             ELSE "commands.archiveRepository"
      [] word = "unarchive" -> IF hasArg THEN "manager.handleUnarchiveByName"
                               ELSE "commands.unarchiveRepository"
      [] word = "delete" -> IF hasArg THEN "commands.deleteRepositoryByName"
                            ELSE "commands.deleteRepository"
      [] word = "bulk-delete" -> "commands.bulkDeleteRepositories"
      [] word = "info" -> "commands.showUserInfo"

\* (mutant) the catch of command-line mode does not end the process
CliExitCode_CatchOnly(p) == 0

\* command-line mode: the exit code once the command has ended at p; the
\* catch around the switch calls process.exit(1)
CliExitCode(p) == IF p = "thrown" THEN 1 ELSE 0

\* (mutant) handleAction does not catch
AfterAction_NoCatch(p, r) ==
    IF p = "thrown" THEN [pc |-> "exited", exitCode |-> 1]
    ELSE [pc |-> "menu", exitCode |-> Running]

\* interactive mode: what follows a command that ended at p in round r; the
\* startup check (round 0) that threw ends the process, an action that threw
\* is caught by handleAction
AfterAction(p, r) ==
    IF p = "thrown" /\ r = 0 THEN [pc |-> "exited", exitCode |-> 1]
    ELSE [pc |-> "menu", exitCode |-> Running]


\* process.env.GITHUB_TOKEN: not set, set to the empty string, or set
NoToken == "<undefined>"
Tokens == {NoToken, "", "ghp_token"}

\* (mutant) the constructor does not look at the token
GitHubClientConstructor_NoCheck(t) == [ok |-> TRUE, error |-> ""]

\* GitHubClient.constructor: if (!token) throw new Error('GitHub token not found ...')
GitHubClientConstructor(t) ==
    IF t \in {NoToken, ""}
    THEN [ok |-> FALSE, error |-> "GitHub token not found"]
    ELSE [ok |-> TRUE, error |-> ""]

\* a command starts with fresh locals; what it called and showed is logged
\* per command
FreshCommand ==
    /\ owner' = ""
    /\ isPrivate' = FALSE
    /\ listing' = <<>>
    /\ targets' = <<>>
    /\ idx' = 1
    /\ results' = <<>>
    /\ errors' = <<>>
    /\ runner' = "none"
    /\ calls' = <<>>
    /\ answers' = <<>>
    /\ prompts' = <<>>
    /\ shown' = <<>>
    /\ query' = <<>>
    /\ remote0' = remote

\* (mutant) the manager is constructed before the help branch
CliDispatch_ConstructFirst ==
    /\ pc = "cli"
    /\ IF ~GitHubClientConstructor(token).ok
       THEN /\ exitCode' = 1
            /\ shown' = Append(shown, "uncaught error")
            /\ client' = client
       ELSE /\ exitCode' = 0
            /\ shown' = shown
            /\ client' = "GitHubClient"
    /\ pc' = "exited"
    /\ UNCHANGED <<remote, olderCount, username, entry, owner, isPrivate, listing,
                   targets, calls, inflight, prompts, query, stats, answers,
                   repoName, remote0, args, token, checked, rounds, authQueries,
                   runnerLocals>>

\* command-line mode: `help` exits at once; otherwise the manager (and with
\* it the client) is constructed, outside any try; then an unknown word exits
\* with 1 and any other word runs its command
CliDispatch ==
    /\ pc = "cli"
    /\ LET word == args[1]
           hasArg == IF word = "search" THEN Len(query) > 0 ELSE repoName # ""
       IN  IF word = "help"
           THEN /\ exitCode' = 0
                /\ pc' = "exited"
                /\ shown' = Append(shown, "usage")
                /\ UNCHANGED <<entry, client>>
           ELSE IF ~GitHubClientConstructor(token).ok
           THEN /\ exitCode' = 1
                /\ pc' = "exited"
                /\ shown' = Append(shown, "uncaught error")
                /\ UNCHANGED <<entry, client>>
           ELSE IF word \notin CliWords \ {"help", "frobnicate"}
           THEN /\ exitCode' = 1
                /\ pc' = "exited"
                /\ shown' = Append(shown, "Unknown command")
                /\ entry' = entry
                /\ client' = "GitHubClient"
           ELSE /\ entry' = CliEntry(word, hasArg)
                /\ pc' = IF word = "search" THEN "cli.search"
                         ELSE StartPc(CliEntry(word, hasArg))
                /\ client' = "GitHubClient"
                /\ UNCHANGED <<exitCode, shown>>
    /\ UNCHANGED <<remote, olderCount, username, owner, isPrivate, listing, targets,
                   calls, inflight, prompts, query, stats, answers, repoName,
                   remote0, args, token, checked, rounds, authQueries, runnerLocals>>

\* command-line mode: the command has returned or thrown; catch (error)
\* { displayError(error); process.exit(1) }, otherwise the process just ends
CliEnded ==
    /\ args # <<>>
    /\ pc \in {"done", "cancelled", "thrown"}
    /\ exitCode' = CliExitCode(pc)
    /\ shown' = IF pc = "thrown" THEN Append(shown, "error") ELSE shown
    /\ pc' = "exited"
    /\ UNCHANGED <<remote, olderCount, username, entry, owner, isPrivate, listing,
                   targets, calls, inflight, prompts, query, stats, answers,
                   repoName, remote0, args, token, checked,
                   client, rounds, authQueries, runnerLocals>>

\* interactive mode: new GitHubManager(), outside any try, then run(): the
\* connection test, await this.commands.showUserInfo()
RunStartup ==
    /\ pc = "run"
    /\ IF ~GitHubClientConstructor(token).ok
       THEN /\ exitCode' = 1
            /\ pc' = "exited"
            /\ shown' = Append(shown, "uncaught error")
            /\ UNCHANGED <<entry, client>>
       ELSE /\ entry' = "commands.showUserInfo"
            /\ pc' = StartPc("commands.showUserInfo")
            /\ client' = "GitHubClient"
            /\ UNCHANGED <<exitCode, shown>>
    /\ UNCHANGED <<remote, olderCount, username, owner, isPrivate, listing, targets,
                   calls, inflight, prompts, query, stats, answers, repoName,
                   remote0, args, token, checked, rounds, authQueries, runnerLocals>>

\* the main loop: showMainMenu, then handleAction's switch; `exit` ends the
\* process with 0
ShowMainMenu ==
    /\ pc = "menu"
    /\ \E action \in MenuActions :
         IF action = "exit"
         THEN /\ exitCode' = 0
              /\ pc' = "exited"
              /\ UNCHANGED <<entry, owner, isPrivate, listing, targets, calls,
                             prompts, shown, query, answers, repoName, remote0,
                             rounds, runnerLocals>>
         ELSE /\ rounds < MaxRounds
              /\ rounds' = rounds + 1
              /\ entry' = MenuEntry(action)
              /\ pc' = StartPc(MenuEntry(action))
              /\ \E n \in Names :
                    repoName' = IF action = "deleteByName" THEN n ELSE ""
              /\ FreshCommand
              /\ exitCode' = exitCode
    /\ UNCHANGED <<remote, olderCount, username, inflight, stats, args, token,
                   client, authQueries, checked>>

\* interactive mode: the command has returned or thrown
ActionEnded ==
    /\ args = <<>>
    /\ pc \in {"done", "cancelled", "thrown"}
    /\ pc' = AfterAction(pc, rounds).pc
    /\ exitCode' = AfterAction(pc, rounds).exitCode
    /\ shown' = IF pc = "thrown" THEN Append(shown, "error") ELSE shown
    /\ UNCHANGED <<remote, olderCount, username, entry, owner, isPrivate, listing,
                   targets, calls, inflight, prompts, query, stats, answers,
                   repoName, remote0, args, token, checked,
                   client, rounds, authQueries, runnerLocals>>

InitProc ==
    /\ \E sa, sb \in RepoStates :
          remote = [k \in RepoKeys |->
                      IF k = <<"me", "a">> THEN sa
                      ELSE IF k = <<"me", "b">> THEN sb ELSE Absent]
    /\ remote0 = remote
    /\ olderCount \in {0, (PageNo - 1) * PerPage}
    /\ username \in {NoUser, Login}
    /\ args \in {<<>>} \cup {<<w>> : w \in CliWords}
    /\ pc = (IF args = <<>> THEN "run" ELSE "cli")
    /\ entry = "index.js"
    /\ repoName \in (IF args # <<>> /\ args[1] \in ByNameWords
                     THEN {"", "a", "c"} ELSE {""})
    /\ query \in (IF args # <<>> /\ args[1] = "search" THEN Queries ELSE {<<>>})
    /\ owner = ""
    /\ isPrivate = FALSE
    /\ listing = <<>>
    /\ targets = <<>>
    /\ runner = "none"
    /\ idx = 1
    /\ results = <<>>
    /\ errors = <<>>
    /\ calls = <<>>
    /\ inflight = {}
    /\ answers = <<>>
    /\ prompts = <<>>
    /\ shown = <<>>
    /\ stats = NoStats
    /\ exitCode = Running
    /\ token \in Tokens
    /\ client = "none"
    /\ rounds = 0
    /\ authQueries = 0
    /\ checked = {}

NextProc ==
    \/ CliDispatch
    \/ CliSearchDispatch
    \/ CliEnded
    \/ RunStartup
    \/ ShowMainMenu
    \/ ActionEnded
    \/ CmdListAll
    \/ CmdInfoList
    \/ CmdDetails
    \/ SearchPrompt
    \/ SearchGetUsername
    \/ SearchRequest
    \/ CmdChooseVisibility
    \/ CmdList
    \/ CmdSelectOne
    \/ CmdSelectMany
    \/ CmdConfirm
    \/ CmdFinalConfirm
    \/ CmdGetUsername
    \/ CmdVerify
    \/ CmdMutate
    \/ BulkIssue
    \/ BulkSettle
    \/ BulkReturn
    \/ CmdReport

SpecProc == InitProc /\ [][NextProc]_vars

----------------------------------------------------------------------------
(* Properties of the bulk runners *)

MutationCalls == SelectSeq(calls, IsMutation)
MutationAnswers == SelectSeq(answers, LAMBDA x : IsMutation(x.call))

RunnerReturned == runner \in Runners /\ pc \in {"returned", "report", "done"}

\* the positions of `targets` whose remote call was answered ok / not ok
Positions(okWanted) ==
    SelectSeq([i \in 1..Len(MutationAnswers) |-> i],
              LAMBDA i : (MutationAnswers[i].answer = "ok") = okWanted)
NamesAt(pos) == [j \in 1..Len(pos) |-> targets[pos[j]].name]
NamesOf(s) == [j \in 1..Len(s) |-> s[j].name]
Count(s, x) == Cardinality({j \in 1..Len(s) : s[j] = x})

\* C1: in every bulk runner a failed remote call for item k neither stops the
\* run nor is raised out of the runner: the runner never ends by throwing, and
\* once it has returned, the call for every later item k+1..N was issued and
\* the failure of item k is recorded in errors.
C1_FailureDoesNotStopRun ==
    /\ pc # "thrown"
    /\ RunnerReturned =>
         \A k \in 1..Len(MutationAnswers) :
            MutationAnswers[k].answer # "ok" =>
              /\ \A j \in (k + 1)..Len(targets) :
                    /\ j <= Len(MutationCalls)
                    /\ MutationCalls[j] =
                          BulkItemCall(runner, owner, targets[j], isPrivate)
              /\ \E e \in 1..Len(errors) :
                    /\ errors[e].name = targets[k].name
                    /\ errors[e].error[2] = MutationAnswers[k].answer

C1_Witness ==
    /\ RunnerReturned
    /\ Len(targets) = 3
    /\ MutationAnswers[1].answer # "ok"
    /\ MutationAnswers[3].answer = "ok"
    /\ Len(errors) >= 1

\* C2: when a bulk runner called with N targets has returned, results and
\* errors together hold exactly N entries and every target is in exactly one
\* of the two lists: none lost, none duplicated.
C2_OutcomesPartitionTargets ==
    RunnerReturned =>
      /\ Len(results) + Len(errors) = Len(targets)
      /\ \A n \in Names :
            Count(NamesOf(targets), n) =
              Count(NamesOf(results), n) + Count(NamesOf(errors), n)
      /\ \A k \in 1..Len(targets) :
            IF MutationAnswers[k].answer = "ok"
            THEN Count(NamesOf(results), targets[k].name) >= 1
            ELSE Count(NamesOf(errors), targets[k].name) >= 1

C2_Witness ==
    /\ RunnerReturned
    /\ Len(targets) = 3
    /\ Len(results) = 2
    /\ Len(errors) = 1

\* C7: in one invocation of a bulk runner each target gets exactly one remote
\* mutation call, whether it succeeds or fails: never more calls than targets
\* handled so far, and exactly N calls once the runner has returned.
C7_OneAttemptPerTarget ==
    /\ runner \in Runners =>
         /\ Len(MutationCalls) <= Len(targets)
         /\ Len(MutationCalls) = (IF pc = "bulk_await" THEN idx ELSE idx - 1)
    /\ RunnerReturned =>
         /\ Len(MutationCalls) = Len(targets)
         /\ \A k \in 1..Len(targets) :
               Count(MutationCalls,
                     BulkItemCall(runner, owner, targets[k], isPrivate))
                 = Count(NamesOf(targets), targets[k].name)

C7_Witness ==
    /\ RunnerReturned
    /\ Len(targets) = 3
    /\ Len(MutationCalls) = 3
    /\ MutationAnswers[2].answer # "ok"

\* C8: every bulk runner issues its remote calls in the order of its input
\* list, and results and errors each keep the relative order of the input.
C8_InputOrderKept ==
    runner \in Runners =>
      /\ \A k \in 1..Len(MutationCalls) :
            MutationCalls[k] = BulkItemCall(runner, owner, targets[k], isPrivate)
      /\ pc # "bulk_await" =>
            /\ NamesOf(results) = NamesAt(Positions(TRUE))
            /\ NamesOf(errors) = NamesAt(Positions(FALSE))

C8_Witness ==
    /\ RunnerReturned
    /\ Len(results) = 2
    /\ results[1].name # results[2].name
    /\ Len(errors) = 1

\* C9: bulkDeleteRepositories returns results equal to the sub-list of targets
\* whose delete succeeded and errors equal to the sub-list whose delete failed,
\* each error entry carrying the target's name and an error message; for the
\* targets a, b, c of which b does not exist, results name a and c and errors
\* hold exactly one entry, naming b with a not-found failure.
C9_BulkDeleteOutcome ==
    (runner = "bulkDeleteRepositories" /\ RunnerReturned) =>
      /\ results = [j \in 1..Len(Positions(TRUE)) |->
                      [name |-> targets[Positions(TRUE)[j]].name,
                       success |-> TRUE]]
      /\ errors = [j \in 1..Len(Positions(FALSE)) |->
                     [name |-> targets[Positions(FALSE)[j]].name,
                      error |-> Wrapped("Failed to delete repository",
                                        MutationAnswers[Positions(FALSE)[j]].answer)]]
      /\ (/\ NamesOf(targets) = <<"a", "b", "c">>
          /\ MutationAnswers[1].answer = "ok"
          /\ MutationAnswers[2].answer = "Not Found"
          /\ MutationAnswers[3].answer = "ok")
         => /\ NamesOf(results) = <<"a", "c">>
            /\ errors = <<[name |-> "b",
                           error |-> Wrapped("Failed to delete repository",
                                             "Not Found")]>>

C9_Witness ==
    /\ runner = "bulkDeleteRepositories"
    /\ RunnerReturned
    /\ NamesOf(targets) = <<"a", "b", "c">>
    /\ NamesOf(results) = <<"a", "c">>
    /\ Len(errors) = 1
    /\ errors[1].error[2] = "Not Found"

----------------------------------------------------------------------------
(* Properties of the mutating commands *)

InSeq(s, x) == \E j \in 1..Len(s) : s[j] = x
Yes(kind) == [kind |-> kind, answer |-> TRUE]

\* C3: the bulk-delete command goes through selection, review of the selected
\* repositories, a first and a second (final) confirmation before it executes:
\* a remote delete is issued only when both confirmations of this invocation
\* were answered yes, and the results report is shown only after the runner
\* has finished with every target.
C3_BulkDeleteStateMachine ==
    entry = "commands.bulkDeleteRepositories" =>
      /\ pc = "confirm" =>
            /\ prompts = <<>>
            /\ targets # <<>>
            /\ InSeq(shown, "review")
      /\ pc = "finalConfirm" =>
            /\ prompts = <<Yes("confirmBulkAction")>>
            /\ InSeq(shown, "review")
      /\ (MutationCalls # <<>> \/ pc \in {"bulk", "bulk_await", "report"}) =>
            /\ prompts = <<Yes("confirmBulkAction"), Yes("confirmAction")>>
            /\ targets # <<>>
            /\ InSeq(shown, "review")
            /\ \A j \in 1..Len(MutationCalls) : MutationCalls[j].api = "repos.delete"
      /\ InSeq(shown, "results") =>
            /\ pc = "done"
            /\ inflight = {}
            /\ Len(MutationAnswers) = Len(targets)
            /\ Len(results) + Len(errors) = Len(targets)

C3_Witness ==
    /\ entry = "commands.bulkDeleteRepositories"
    /\ pc = "done"
    /\ InSeq(shown, "results")
    /\ Len(targets) >= 2
    /\ Len(results) >= 1

\* C4: in every mutating command a declined confirmation ends the command in
\* the cancelled state: the declined prompt is the last one asked, no remote
\* mutating call has been or will be issued, the remote repositories are as
\* they were, and no step of the command follows.
C4_DeclineCancels ==
    /\ \A i \in 1..Len(prompts) :
          ~prompts[i].answer =>
            /\ pc = "cancelled"
            /\ i = Len(prompts)
            /\ MutationCalls = <<>>
            /\ inflight = {}
            /\ remote = remote0
    /\ pc = "cancelled" =>
          /\ prompts # <<>>
          /\ ~prompts[Len(prompts)].answer
          /\ ~ENABLED NextCmd

C4_Witness ==
    /\ pc = "cancelled"
    /\ entry = "commands.bulkDeleteRepositories"
    /\ Len(prompts) = 2
    /\ prompts[1].answer

----------------------------------------------------------------------------
(* Properties of the reading operations *)

\* C5: listRepositories returns every repository visible to the authenticated
\* identity, following all pages: whatever the number of remote repositories,
\* the returned list holds each of them exactly once.
C5_ListReturnsEveryRepository ==
    (entry = "listRepositories" /\ pc = "returned") =>
      /\ Len(listing) = olderCount + Cardinality({k \in RepoKeys : remote[k].exists})
      /\ \A k \in RepoKeys :
            remote[k].exists =>
              Cardinality({j \in 1..Len(listing) : listing[j].full_name = k}) = 1

\* C6: a search query that is empty after trimming is rejected before any
\* network call is made, on every path that reaches the search: no remote
\* call is ever issued while the query is empty after trimming.
C6_EmptyQueryRejectedBeforeNetwork ==
    Len(Trim(query)) = 0 => calls = <<>>

\* C10: getRepositoryStats never fails because a sub-fetch fails: for every
\* subset of failing sub-fetches it returns, the failed parts degraded to
\* contributors_count 0, empty languages or last_commit null, the succeeded
\* parts intact; an empty commit history yields last_commit null.
C10_StatsDegrade ==
    entry = "getRepositoryStats" =>
      /\ pc # "thrown"
      /\ pc = "returned" =>
            /\ results[1].contributors_count =
                  (IF stats["contributors"].ok
                   THEN Len(stats["contributors"].data) ELSE 0)
            /\ results[1].languages =
                  (IF stats["languages"].ok THEN stats["languages"].data ELSE {})
            /\ results[1].last_commit =
                  (IF stats["commits"].ok /\ stats["commits"].data # <<>>
                   THEN stats["commits"].data[1] ELSE Null)

C10_Witness ==
    /\ entry = "getRepositoryStats"
    /\ pc = "returned"
    /\ ~stats["commits"].ok
    /\ ~stats["languages"].ok
    /\ stats["contributors"].ok
    /\ results[1].contributors_count = 2
    /\ results[1].last_commit = Null

----------------------------------------------------------------------------
(* Properties of the process *)

\* the last step issued the authenticated-identity query
AuthQueried == Len(calls') = Len(calls) + 1 /\ calls'[Len(calls')] = AuthCall

\* C11: the authenticated-identity query succeeds at most once per process;
\* once a username is cached no step changes it or queries the identity
\* again, and every getUsername of a later command returns the cached value.
C11_UsernameCachedOnce ==
    /\ [](authQueries <= 1)
    /\ [][username # NoUser =>
            /\ username' = username
            /\ authQueries' = authQueries
            /\ ~AuthQueried
            /\ (pc \in {"username", "searchRepositories"} => owner' = username)]_vars

\* a later command got the username that an earlier command's query cached,
\* without a query of its own
C11_Witness ==
    /\ authQueries = 1
    /\ rounds = 2
    /\ pc \in {"verify", "mutate", "bulk", "details.get", "search.repos"}
    /\ owner = username
    /\ ~InSeq(calls, AuthCall)

\* C12: in command-line mode only an unknown command or a failed startup
\* (no token) ends the process with a non-zero exit code: a run of list,
\* search, info, visibility, archive, unarchive, delete or bulk-delete ends
\* with exit code 0 whatever the service answered.
C12_CliRemoteFailureExitsZero ==
    (args # <<>> /\ pc = "exited" /\ args[1] # "frobnicate"
     /\ GitHubClientConstructor(token).ok) => exitCode = 0

\* C13: in interactive mode, once the startup check has passed, a menu
\* action that ended (returned, was cancelled, or threw) gives control back to
\* the main menu with the process still running, and the process ends only
\* from the menu, through the exit action, with exit code 0.
C13_MenuActionFailureReturnsToMenu ==
    [][(args = <<>> /\ rounds >= 1) =>
          /\ (pc \in {"done", "cancelled", "thrown"} =>
                 pc' = "menu" /\ exitCode' = Running)
          /\ (pc' = "exited" => pc = "menu" /\ exitCode' = 0)]_vars

\* a menu action whose command threw (list, after a failed listing request)
\* has been shown as an error and the menu is up again
C13_Witness ==
    /\ args = <<>>
    /\ rounds = 1
    /\ pc = "menu"
    /\ entry = "commands.listRepositories"
    /\ shown = <<"error", "error">>
    /\ exitCode = Running

----------------------------------------------------------------------------
(* Properties of the client's single-item operations *)

\* the kind of error the operation is to fail with, given the service's answer
FailureKind(op, a) ==
    IF op = "deleteRepository" /\ a = "Forbidden" THEN "PermissionError"
    ELSE "NotFoundError"

\* C14: a failed getRepository throws a NotFoundError; a failed
\* deleteRepository throws a PermissionError when the service refused the
\* deletion for lack of rights and a NotFoundError otherwise.
C14_FailuresDistinguishedByKind ==
    (entry \in {"getRepository", "deleteRepository"} /\ pc = "thrown") =>
        errors[Len(errors)].kind =
            FailureKind(entry, answers[Len(answers)].answer)

\* C15: updateRepositoryVisibility, archiveRepository and unarchiveRepository
\* are idempotent: after a successful invocation, invoking the operation again
\* with the same arguments leaves the remote state as it was and returns the
\* same repository state, and every invocation sends one and the same
\* repos.update request.
C15_UpdatesIdempotent ==
    (entry \in UpdateOps /\ pc \in {"returned", "thrown"}) =>
        /\ Len(calls) = idx
        /\ \A j \in 1..Len(calls) :
              calls[j] = ClientCall(entry, owner, repoName, isPrivate)
        /\ (idx >= 2 /\ answers[1].answer = "ok") =>
              /\ remote = remote0
              /\ \A j \in 1..Len(results) : results[j] = results[1]

\* an update was invoked twice with the same value and succeeded both times
C15_Witness ==
    /\ entry \in UpdateOps
    /\ idx = 2
    /\ pc = "returned"
    /\ Len(results) = 2
    /\ remote # [k \in RepoKeys |-> Absent]
    /\ answers[1].answer = "ok"
    /\ answers[2].answer = "ok"

----------------------------------------------------------------------------
(* Properties of the listings the commands offer *)

\* the commands that offer only the repositories eligible for their action
FilteringCmds == {"commands.archiveRepository", "commands.bulkArchiveRepositories",
                  "commands.unarchiveRepository",
                  "commands.bulkUnarchiveRepositories",
                  "commands.bulkChangeRepositoryVisibility"}

Listed == InSeq(answers, [call |-> ListCall, answer |-> "ok"])

\* C16: for the same snapshot and each target visibility, the eligible set the
\* bulk-visibility command gets from listPublicRepositories /
\* listPrivateRepositories equals the one the other variant computes by
\* filtering the full listing itself; the same holds for the archive and
\* unarchive commands with listActiveRepositories / listArchivedRepositories.
C16_ServerAndClientFilterAgree ==
    (entry \in FilteringCmds /\ Listed) =>
        listing = ClientSideEligible(entry, listRepositories(remote0, olderCount),
                                     isPrivate)

\* bulk visibility offers a listing from which a repository was filtered out
C16_Witness ==
    /\ entry = "commands.bulkChangeRepositoryVisibility"
    /\ pc = "selectMany"
    /\ Len(listing) >= 1
    /\ Len(listing) < Len(listRepositories(remote0, olderCount))

\* whether the repository was eligible for command e when it was invoked
Eligible(e, repo, p) ==
    /\ repo.full_name \in RepoKeys
    /\ remote0[repo.full_name].exists
    /\ CASE e \in {"commands.archiveRepository",
                   "commands.bulkArchiveRepositories"} ->
                ~repo.archived /\ ~remote0[repo.full_name].archived
         [] e \in {"commands.unarchiveRepository",
                   "commands.bulkUnarchiveRepositories"} ->
                repo.archived /\ remote0[repo.full_name].archived
         [] e = "commands.bulkChangeRepositoryVisibility" ->
                repo.private # p /\ remote0[repo.full_name].private # p
         [] OTHER -> TRUE

\* C20: archive and bulk archive offer only repositories that are not
\* archived, unarchive and bulk unarchive only archived ones, bulk visibility
\* only those whose visibility differs from the chosen target; so every
\* selected repository, and every target of the runner, was eligible in the
\* listing snapshot.
C20_OnlyEligibleOffered ==
    entry \in FilteringCmds =>
        /\ \A j \in 1..Len(listing) : Eligible(entry, listing[j], isPrivate)
        /\ \A j \in 1..Len(targets) : Eligible(entry, targets[j], isPrivate)

\* the bulk archive runner is at work on a selection while the account also
\* holds an archived repository
C20_Witness ==
    /\ entry = "commands.bulkArchiveRepositories"
    /\ runner = "bulkArchiveRepositories"
    /\ pc = "bulk_await"
    /\ Len(targets) >= 1
    /\ \E k \in OwnKeys : remote0[k].exists /\ remote0[k].archived

\* the repositories in a listing
Members(repos) == {repos[j] : j \in 1..Len(repos)}

\* two sub-listings share no repository and together hold exactly the full
\* listing, each repository once
Partition(full, one, other) ==
    /\ Members(one) \cap Members(other) = {}
    /\ Members(one) \cup Members(other) = Members(full)
    /\ Len(one) + Len(other) = Len(full)

\* C17: the active listing and the archived listing of one snapshot are
\* disjoint and their union is the full listing.
C17_ActiveArchivedPartition ==
    (entry \in {"listActiveRepositories", "listArchivedRepositories"}
     /\ pc = "returned") =>
        /\ listing = ListResult(entry, remote, olderCount)
        /\ Partition(listRepositories(remote, olderCount),
                     ListResult("listActiveRepositories", remote, olderCount),
                     ListResult("listArchivedRepositories", remote, olderCount))

\* listActiveRepositories has returned a part of a listing that also holds
\* archived repositories
C17_Witness ==
    /\ entry = "listActiveRepositories"
    /\ pc = "returned"
    /\ Len(listing) >= 2
    /\ Len(listArchivedRepositories(remote, olderCount)) >= 1

\* C18: the public listing and the private listing of one snapshot are
\* disjoint and their union is the full listing.
C18_PublicPrivatePartition ==
    (entry \in {"listPublicRepositories", "listPrivateRepositories"}
     /\ pc = "returned") =>
        /\ listing = ListResult(entry, remote, olderCount)
        /\ Partition(listRepositories(remote, olderCount),
                     ListResult("listPublicRepositories", remote, olderCount),
                     ListResult("listPrivateRepositories", remote, olderCount))

\* listPrivateRepositories has returned a part of a listing that also holds
\* public repositories
C18_Witness ==
    /\ entry = "listPrivateRepositories"
    /\ pc = "returned"
    /\ Len(listing) >= 2
    /\ \E j \in 1..Len(listing) : listing[j].archived
    /\ Len(listPublicRepositories(remote, olderCount)) >= 1

----------------------------------------------------------------------------
(* Properties of the info summary *)

\* the repositories of the account
Account == {k \in RepoKeys : remote[k].exists}

\* C19: the info summary reports total = the number of repositories the
\* account has, private = the number of them with the private flag, public =
\* total - private, archived = the number with the archived flag (stated for
\* accounts all of whose repositories are modelled).
C19_InfoSummaryCounts ==
    (entry = "commands.showUserInfo" /\ olderCount = 0 /\ InSeq(shown, "info")) =>
        /\ results[1].total = Cardinality(Account)
        /\ results[1].private = Cardinality({k \in Account : remote[k].private})
        /\ results[1].public = results[1].total - results[1].private
        /\ results[1].archived = Cardinality({k \in Account : remote[k].archived})

----------------------------------------------------------------------------
(* Properties of the by-name flows and of the visibility command *)

\* position of the first occurrence of x in s (0: none)
IndexOf(s, x) ==
    IF InSeq(s, x) THEN CHOOSE j \in 1..Len(s) :
                            s[j] = x /\ \A i \in 1..(j - 1) : s[i] # x
    ELSE 0

Verified == InSeq(answers, [call |-> GetCall(owner, repoName), answer |-> "ok"])

\* C21: in the by-name flows the repository is fetched first, then the user is
\* asked to confirm, and only then is the mutating call issued; when the
\* verifying fetch fails no confirmation is asked and no mutating call made.
C21_ByNameVerifyConfirmMutate ==
    entry \in ByNameCmds =>
        /\ prompts # <<>> => Verified
        /\ MutationCalls # <<>> =>
              /\ Verified
              /\ prompts = <<Yes("confirmAction")>>
              /\ Len(MutationCalls) = 1
              /\ IndexOf(calls, GetCall(owner, repoName)) >= 1
              /\ IndexOf(calls, GetCall(owner, repoName)) <
                    IndexOf(calls, MutationCalls[1])
        /\ (\E j \in 1..Len(answers) :
               answers[j].call.api = "repos.get" /\ answers[j].answer # "ok") =>
              prompts = <<>> /\ MutationCalls = <<>>

\* a by-name flow has verified, asked, and issued its mutating call
C21_Witness ==
    /\ entry \in ByNameCmds
    /\ pc = "done"
    /\ Verified
    /\ prompts = <<Yes("confirmAction")>>
    /\ Len(MutationCalls) = 1

VisibilityCmds == {"commands.changeRepositoryVisibility",
                   "manager.handleVisibilityChangeByName"}

NotHelp == args = <<>> \/ args[1] # "help"

\* C23: with no access token (GITHUB_TOKEN unset or empty) every run other
\* than help fails at startup: the client is never constructed, no prompt is
\* shown, no remote call is made or in flight, no command starts, and the
\* process can only end with exit code 1.
C23_NoTokenFailsAtStartup ==
    (token \in {NoToken, ""} /\ NotHelp) =>
        /\ client = "none"
        /\ prompts = <<>>
        /\ calls = <<>>
        /\ inflight = {}
        /\ pc \in {"cli", "run", "exited"}
        /\ pc = "exited" => exitCode = 1
        /\ pc # "exited" => exitCode = Running

\* a command-line run of a known command ended at startup for want of a token
C23_Witness ==
    /\ token = NoToken
    /\ args # <<>>
    /\ args[1] \in CliWords \ {"help", "frobnicate"}
    /\ pc = "exited"
    /\ exitCode = 1
    /\ client = "none"
    /\ calls = <<>>
    /\ prompts = <<>>

\* C24: `help` prints the usage text and ends the process with exit code 0
\* whatever GITHUB_TOKEN holds: the client is never constructed, and no
\* remote call or prompt is made.
C24_HelpNeedsNoCredentials ==
    (args # <<>> /\ args[1] = "help") =>
        /\ client = "none"
        /\ calls = <<>>
        /\ inflight = {}
        /\ prompts = <<>>
        /\ pc \in {"cli", "exited"}
        /\ pc = "exited" => (exitCode = 0 /\ shown = <<"usage">>)

\* help ended with exit code 0 although no token is set
C24_Witness ==
    /\ args = <<"help">>
    /\ token = NoToken
    /\ pc = "exited"
    /\ exitCode = 0
    /\ shown = <<"usage">>
    /\ client = "none"

\* the remote calls issued and not yet answered
Outstanding == Len(calls) - Len(answers)

\* C25: outside getRepositoryStats at most one remote call is in flight at
\* any time: the calls are answered in the order they were issued, and a
\* call (the bulk loop's call k+1 in particular) is issued only when every
\* earlier call has been answered.
C25_OneCallInFlight ==
    entry # "getRepositoryStats" =>
        /\ Outstanding \in {0, 1}
        /\ Cardinality(inflight) = Outstanding
        /\ \A k \in 1..Len(answers) : answers[k].call = calls[k]
        /\ inflight # {} => inflight = {calls[Len(calls)]}
        /\ pc = "bulk_await" <=> Outstanding = 1

\* a bulk loop is awaiting its second call, the first one answered
C25_Witness ==
    /\ entry \in BulkCmds
    /\ pc = "bulk_await"
    /\ idx = 2
    /\ Outstanding = 1
    /\ Cardinality(inflight) = 1
    /\ answers[Len(answers)].call = BulkItemCall(runner, owner, targets[1], isPrivate)

\* the sub-fetches that have settled, in the order they settled
SettledCalls == [k \in 1..Len(answers) |-> answers[k].call]

\* C26: the three sub-fetches of getRepositoryStats are in flight together
\* and settle one at a time in whatever order; the call returns only when
\* all three have settled, and what it returns is determined by what each
\* sub-fetch produced, not by the order in which they settled.
C26_StatsFetchesConcurrent ==
    entry = "getRepositoryStats" =>
        /\ pc = "Promise.all" =>
              /\ Len(calls) = 3
              /\ inflight = {calls[k] : k \in 1..3} \ {answers[k].call : k \in 1..Len(answers)}
              /\ Cardinality(inflight) = 3 - Len(answers)
        /\ pc \in {"returned", "thrown"} =>
              /\ inflight = {}
              /\ Len(answers) = 3
              /\ {answers[k].call : k \in 1..3} =
                     {StatsCall(sub, owner, repoName) : sub \in Subs}
        /\ pc = "returned" =>
              results = <<[contributors_count |->
                               IF stats["contributors"].ok
                               THEN Len(stats["contributors"].data) ELSE 0,
                           languages |->
                               IF stats["languages"].ok
                               THEN stats["languages"].data ELSE {},
                           last_commit |->
                               IF stats["commits"].ok /\ stats["commits"].data # <<>>
                               THEN stats["commits"].data[1] ELSE Null]>>

\* the call returned after the sub-fetches settled in the reverse of the
\* order they were issued in, each with data
C26_Witness ==
    /\ entry = "getRepositoryStats"
    /\ pc = "returned"
    /\ SettledCalls = <<StatsCall("commits", owner, repoName),
                        StatsCall("languages", owner, repoName),
                        StatsCall("contributors", owner, repoName)>>
    /\ results = <<[contributors_count |-> 2, languages |-> {"JavaScript"},
                    last_commit |-> "commit1"]>>

\* a bulk command has begun its bulk operation
BulkBegun == entry \in BulkCmds /\ pc = "bulk" /\ idx = 1

\* the bulk command has reported, every target attempted exactly once
BulkReported ==
    /\ pc = "done"
    /\ idx = Len(targets) + 1
    /\ Len(MutationCalls) = Len(targets)
    /\ Len(results) + Len(errors) = Len(targets)
    /\ shown # <<>>
    /\ shown[Len(shown)] = "results"

\* C27: once a bulk operation has begun it runs to completion over all its
\* targets: given that every remote call settles, the command reaches its
\* report with every target attempted; and between the begin and the report
\* no step asks the user anything or leaves the operation.
C27_BulkRunsToCompletion ==
    /\ BulkBegun ~> BulkReported
    /\ [][(entry \in BulkCmds /\ pc \in {"bulk", "bulk_await", "report"}) =>
              /\ prompts' = prompts
              /\ targets' = targets
              /\ pc' \in {"bulk", "bulk_await", "report", "done"}
              /\ pc' = "report" => idx = Len(targets) + 1]_vars

\* a bulk command over MaxTargets targets has reported, with a failure among
\* the attempts
C27_Witness ==
    /\ entry \in BulkCmds
    /\ BulkReported
    /\ Len(targets) = MaxTargets
    /\ errors # <<>>
    /\ results # <<>>

\* C28: every mutating remote call made for a repository picked from a
\* listing is addressed to that repository: the owner and name sent are the
\* picked entry's full_name, also when the listing holds repositories of
\* another owner than the resolved username.
C28_MutationTargetsSelectedEntry ==
    entry \in SingleCmds \cup BulkCmds =>
        \A k \in 1..Len(MutationCalls) :
            <<MutationCalls[k].owner, MutationCalls[k].repo>> = targets[k].full_name

\* the entries of `repos` whose rows are among `rows`, in the offered order
EntriesAt(repos, rows) ==
    LET at == SelectSeq([j \in 1..Len(repos) |-> j], LAMBDA j : RepoRow(j) \in rows)
    IN  [k \in 1..Len(at) |-> repos[at[k]]]

\* C29: selectMultipleRepositories returns a sub-list of the offered list in
\* the offered order: the whole list when Select All is checked, the empty
\* list when Select None is checked without Select All, and otherwise
\* exactly the entries whose rows were checked, also when two offered
\* entries share a name.
C29_SelectionIsWhatWasChecked ==
    (entry = "selectMultipleRepositories" /\ pc = "returned") =>
        targets = IF SelectAllRow \in checked THEN listing
                  ELSE IF SelectNoneRow \in checked THEN <<>>
                  ELSE EntriesAt(listing, checked)

\* the by-name archive handlers, and the state each of them is to bring about
ArchiveByNameCmds == {"manager.handleArchiveByName", "manager.handleUnarchiveByName"}
WantedArchived(e) == e = "manager.handleArchiveByName"

\* C30: archive-by-name of a repository that already is archived, and
\* unarchive-by-name of one that is not archived, end right after the
\* verifying fetch with a warning: no confirmation is asked, no remote
\* update call is made, and the repository is left as it was.
C30_AlreadyInWantedState ==
    (/\ entry \in ArchiveByNameCmds
     /\ Verified
     /\ remote0[<<owner, repoName>>].archived = WantedArchived(entry)) =>
        /\ pc = "done"
        /\ prompts = <<>>
        /\ MutationCalls = <<>>
        /\ shown[Len(shown)] = "warning"
        /\ remote = remote0

\* unarchive by name of a repository that is not archived ended with the
\* warning, and so did archive by name of an archived one
C30_Witness ==
    /\ entry \in ArchiveByNameCmds
    /\ Verified
    /\ remote0[<<owner, repoName>>].exists
    /\ remote0[<<owner, repoName>>].archived = WantedArchived(entry)
    /\ pc = "done"
    /\ shown[Len(shown)] = "warning"
    /\ calls[Len(calls)] = GetCall(owner, repoName)

====
